---------------------------- MODULE Spec2Model ----------------------------
(***************************************************************************)
(* A model of the four scoring/caching engines of the signal-gating layer: *)
(*   ConvergenceAnalyzer  (src/convergence_analyzer.py)                    *)
(*   TokenIntelligence    (src/token_intelligence.py)                      *)
(*   FundingTracker       (src/funding_tracker.py)                         *)
(*   MomentumTracker      (src/momentum_tracker.py)                        *)
(* Each engine has its own variables, actions and specification; the       *)
(* engines do not call each other, so a specification of one engine leaves *)
(* the variables of the others unchanged.                                  *)
(*                                                                         *)
(* Python floats are modelled as exact rationals <<n, d>> in lowest terms  *)
(* with d > 0: the model does every operation the code does, in the same   *)
(* order, without the rounding error of binary floating point.             *)
(***************************************************************************)
EXTENDS Integers, Sequences, FiniteSets, TLC

VARIABLES
    cvStats,        \* ConvergenceAnalyzer._stats_cache: symbol -> ConvergenceStats
    cvBlacklist,    \* ConvergenceAnalyzer._blacklist
    cvWhitelist,    \* ConvergenceAnalyzer._whitelist
    cvDb,           \* ConvergenceAnalyzer._db is set (TRUE) or None (FALSE)
    cvLoadPc,       \* load_from_database: "idle", or "fetch" while awaiting the rows
    cvLoads,        \* how many times load_from_database was started
    cvRet,          \* what the ConvergenceAnalyzer query of the last step returned
    tiStats,        \* TokenIntelligence._stats: symbol -> TokenStats
    tiLoadPc,       \* TokenIntelligence.load_from_database: "idle" or "fetch"
    tiLoads,        \* how many times TokenIntelligence.load_from_database was started
    tiVerdict,      \* what the should_signal call of the last step returned, if any
    tiRet,          \* what the get_score or get_signal_modifier call of the last step returned
    fdCache,        \* FundingTracker._funding_cache: symbol -> FundingInfo
    fdSession,      \* FundingTracker._session: "none", "open" or "closed"
    fdTasks,        \* the callers' coroutines: where each is in fetch_*, and for what
    fdRet,          \* what the FundingTracker call that returned in the last step gave
    mtHistory,      \* MomentumTracker._price_history: symbol -> deque of PricePoint
    mtCache,        \* MomentumTracker._momentum_cache: symbol -> MomentumData
    mtRet,          \* what the MomentumTracker call of the last step returned
    b64Avg,         \* avg_convergence_time_sec of one symbol as the binary64 it is
    b64Calls,       \* how many converged signals went into b64Avg
    b64Last,        \* the last of them: the average before, the time, the average after
    now             \* time.time(), in seconds

cvVars == <<cvStats, cvBlacklist, cvWhitelist, cvDb, cvLoadPc, cvLoads, cvRet>>
tiVars == <<tiStats, tiLoadPc, tiLoads, tiVerdict, tiRet>>
fdVars == <<fdCache, fdSession, fdTasks, fdRet>>
mtVars == <<mtHistory, mtCache, mtRet>>
b64Vars == <<b64Avg, b64Calls, b64Last>>
vars == <<cvStats, cvBlacklist, cvWhitelist, cvDb, cvLoadPc, cvLoads, cvRet,
          tiStats, tiLoadPc, tiLoads, tiVerdict, tiRet,
          fdCache, fdSession, fdTasks, fdRet,
          mtHistory, mtCache, mtRet, b64Avg, b64Calls, b64Last, now>>

-----------------------------------------------------------------------------
(* Bounds of the model and the inputs the operations are called with.      *)

Symbols == {"BTC", "ETH"}
Directions == {"LONG", "SHORT"}

\* recordConvergence stops once this many signals are on record (all symbols).
MaxSignals == 5
\* load_from_database is started at most this many times.
MaxLoads == 1

\* time_seconds and profit_percent of a recordConvergence call.
ConvTimes == {0, 300}
ConvProfits == {-7, 3}

\* recordOutcome stops once this many outcomes are on record (all symbols), in
\* the specification of the mutations and in the one with should_signal calls.
MaxOutcomes == 4
MaxGateOutcomes == 5

\* The record_outcome calls of SpecTok: every direction with every kind of
\* outcome ("timeout" stands for any string other than win, lose and draw),
\* with profits of both signs and times below, at and above the 300 s and
\* 3600 s marks: <<direction, outcome, profit_percent, convergence_time>>.
TokCalls ==
    {<<"LONG", "win", 6, 200>>, <<"SHORT", "win", 12, 4000>>,
     <<"LONG", "lose", -4, 900>>, <<"SHORT", "lose", -30, 0>>,
     <<"LONG", "draw", 0, 300>>, <<"SHORT", "timeout", -1, 3600>>}

\* The record_outcome calls of SpecTokGate, and the symbol they are for (a
\* should_signal call is for any symbol, recorded or not).
TokGateCalls ==
    {<<"LONG", "win", 6, 200>>, <<"SHORT", "win", 12, 4000>>,
     <<"LONG", "lose", -4, 900>>, <<"SHORT", "lose", -30, 0>>,
     <<"LONG", "draw", 0, 300>>}
GateSymbols == {"BTC"}

\* The record_outcome calls of SpecTokWindow, which records up to
\* MaxWindowOutcomes outcomes for one symbol: more than recent_outcomes keeps.
TokWindowCalls == {<<"LONG", "win", 6, 200>>, <<"SHORT", "lose", -30, 0>>}
MaxWindowOutcomes == 12

\* min_score and min_win_rate of a should_signal call: none, and the defaults
\* 4.0 and 0.35.
MinScores == {<<0, 1>>, <<4, 1>>}
MinWinRates == {<<0, 1>>, <<7, 20>>}

\* The clock stops at MaxTime seconds.
MaxTime == 600

\* How far the clock moves between two calls: half the cache TTL, so that a
\* snapshot is seen at the ages 0, 150, 300 (the TTL itself), 450 and 600.
TickSteps == {150}

\* The callers' coroutines that may be inside a fetch at the same time.
Tasks == {1, 2}

\* hold_hours of a calculate_funding_cost call: the default 4.0, and 8.0.
HoldHours == {<<4, 1>>, <<8, 1>>}

\* record_price and analyze_momentum stop while this many price points are on
\* record (all symbols); points that age out make room again.
MaxSamples == 3
MaxGateSamples == 3

\* The symbol prices are recorded for (a query is for any symbol), and the
\* prices: a rise and a fall of about 2% between 100 and 102.
MomSymbols == {"BTC"}
MomPrices == {100, 102}

\* The clock of the MomentumTracker stops at MomMaxTime seconds (at
\* MomGateMaxTime in the specification with the gate's queries), and moves by
\* one minute or by five, the two ages analyze_momentum looks back.
MomMaxTime == 720
MomGateMaxTime == 360
MomTickSteps == {60, 300}

\* SpecScores records convergences and outcomes of one symbol, up to
\* MaxScoreSignals and MaxScoreOutcomes of them, with times at the 300 s and
\* 3600 s marks and between them, and with losses and very large profits:
\* <<converged, time_seconds, profit_percent>> and
\* <<direction, outcome, profit_percent, convergence_time>>.
ScoreConvCalls ==
    {<<TRUE, 300, 50>>, <<TRUE, 3600, -7>>, <<TRUE, 1000, 3>>, <<FALSE, 0, -7>>}
ScoreTokCalls ==
    {<<"LONG", "win", 200, 300>>, <<"SHORT", "win", 6, 3600>>,
     <<"LONG", "draw", 0, 1000>>, <<"SHORT", "lose", -30, 0>>}
MaxScoreSignals == 3
MaxScoreOutcomes == 3

\* SpecB64 feeds up to MaxB64Calls converged signals of one symbol into the
\* binary64 average, with these times.
B64Times == {3, 6, 300, 429}
MaxB64Calls == 4

\* SpecMultipliers: the prices analyzed and the steps of the clock, which stops
\* at MultMaxTime; analyze_momentum stops while MaxMultSamples price points are
\* retained and record_outcome once MaxMultOutcomes outcomes are on record.
MultPrices == {100, 125}
MultTickSteps == {60}
MultMaxTime == 60
MaxMultSamples == 2
MaxMultOutcomes == 3
\* Its record_outcome calls.
MultTokCalls == {<<"LONG", "win", 200, 300>>, <<"SHORT", "lose", -30, 0>>}

\* In SpecAtomic record_convergence and record_outcome stop once this many
\* signals and outcomes are on record together.
MaxAtomicSteps == 5
\* Its record_convergence calls: <<converged, time_seconds, profit_percent>>.
AtomicConvCalls == {<<TRUE, 300, 3>>, <<FALSE, 0, -7>>}

\* In SpecDefaults the mutations stop once this many are on record: signals,
\* outcomes, retained price points and cached funding rates together.
MaxDefaultSteps == 3

\* SpecMomBurst records one price for one symbol as often as it takes to fill
\* the deque, on a clock that moves by more than the retention horizon.
BurstPrices == {100}
BurstTickSteps == {601}
BurstMaxTime == 601

\* min_strength of a confirms_direction call: the default 2.0, the strength 2.4
\* of the price moves above, and 3.0.
MinStrengths == {<<2, 1>>, <<12, 5>>, <<3, 1>>}

\* What the exchange reports for a contract: fundingRate 0.0001 with no
\* expected rate, and fundingRate -0.0005 with expectedFundingRate 0.0002.
FundingPayloads ==
    {[fundingRate |-> <<1, 10000>>, nextSettleTime |-> 28800,
      expectedFundingRate |-> <<0, 1>>],
     [fundingRate |-> <<-1, 2000>>, nextSettleTime |-> 57600,
      expectedFundingRate |-> <<1, 5000>>]}

\* The items of a bulk response. base and quote are the two parts of the
\* item's "symbol" ("BTC_USDT"); an item that is not valid has a field float()
\* or int() raises on (a null or non-numeric fundingRate).
FundingItems ==
    {[base |-> "BTC", quote |-> "USDT", valid |-> TRUE,
      data |-> [fundingRate |-> <<1, 10000>>, nextSettleTime |-> 28800,
                expectedFundingRate |-> <<0, 1>>]],
     [base |-> "ETH", quote |-> "USDT", valid |-> TRUE,
      data |-> [fundingRate |-> <<-1, 2000>>, nextSettleTime |-> 57600,
                expectedFundingRate |-> <<1, 5000>>]],
     [base |-> "ETH", quote |-> "USDT", valid |-> FALSE,
      data |-> [fundingRate |-> <<0, 1>>, nextSettleTime |-> 0,
                expectedFundingRate |-> <<0, 1>>]],
     [base |-> "BTC", quote |-> "USD", valid |-> TRUE,
      data |-> [fundingRate |-> <<1, 10000>>, nextSettleTime |-> 28800,
                expectedFundingRate |-> <<0, 1>>]]}

\* What comes back for a request for one symbol: an exception (network error,
\* timeout, a body that is not JSON, a field that is not a number), a status
\* other than 200, a body without success or without data, or the data.
OneResponses ==
    {[kind |-> "exception"], [kind |-> "status"], [kind |-> "unsuccessful"]}
        \cup {[kind |-> "ok", data |-> d] : d \in FundingPayloads}

\* What comes back for the bulk request: the same failures, or a non-empty
\* list of at most two items.
AllResponses ==
    {[kind |-> "exception"], [kind |-> "status"], [kind |-> "unsuccessful"]}
        \cup {[kind |-> "ok", data |-> <<i>>] : i \in FundingItems}
        \cup {[kind |-> "ok", data |-> <<i, j>>] : i \in FundingItems, j \in FundingItems}

\* SQL NULL in a row of the store; `x or d` treats None and 0 alike.
Null == 0

\* The aggregate rows the store may return for a token (HAVING total >= 3):
\* total, converged, avg_time, min_time, max_time, avg_profit.
LoadRowChoices ==
    {[total |-> 5, converged |-> 5, avg_time |-> 200, min_time |-> 200,
      max_time |-> 200, avg_profit |-> 3],
     [total |-> 5, converged |-> 0, avg_time |-> Null, min_time |-> Null,
      max_time |-> Null, avg_profit |-> Null],
     [total |-> 5, converged |-> 2, avg_time |-> 4000, min_time |-> 200,
      max_time |-> 7800, avg_profit |-> 1],
     [total |-> 3, converged |-> 2, avg_time |-> 200, min_time |-> 200,
      max_time |-> 200, avg_profit |-> 3],
     [total |-> 3, converged |-> 0, avg_time |-> Null, min_time |-> Null,
      max_time |-> Null, avg_profit |-> Null]}

\* The result sets of the query: at most one row per token (GROUP BY token).
LoadRowSets == UNION {[S -> LoadRowChoices] : S \in SUBSET Symbols}

\* The rows the store may return to TokenIntelligence.load_from_database:
\* <<token, direction, outcome, price_change_percent, duration>>.
TokRowChoices ==
    {<<"BTC", "LONG", "win", 6, 200>>,
     <<"BTC", "SHORT", "lose", -4, Null>>,
     <<"ETH", "SHORT", "draw", Null, 4000>>}

\* Its result sets: the sequences of at most two such rows, in the order of
\* the query (ORDER BY s.created_at DESC): the row of the newest signal first.
TokRowSets ==
    {<<>>} \cup {<<r>> : r \in TokRowChoices}
           \cup {<<r1, r2>> : r1 \in TokRowChoices, r2 \in TokRowChoices}

-----------------------------------------------------------------------------
(* Optional values.                                                        *)

\* None and a present value of an Optional, and the value of a present one.
None == <<>>
Some(x) == <<x>>
Get(opt) == opt[1]

-----------------------------------------------------------------------------
(* Exact rationals.                                                        *)

Abs(x) == IF x < 0 THEN -x ELSE x

RECURSIVE GCD(_, _)
GCD(a, b) == IF b = 0 THEN a ELSE GCD(b, a % b)

\* n/d in lowest terms, d # 0.
Rat(n, d) ==
    LET g == GCD(Abs(n), Abs(d))
        s == IF d < 0 THEN -1 ELSE 1
    IN  <<(s * n) \div g, (s * d) \div g>>

RInt(i) == <<i, 1>>
RAdd(x, y) == Rat(x[1] * y[2] + y[1] * x[2], x[2] * y[2])
RNeg(x) == <<-x[1], x[2]>>
RSub(x, y) == RAdd(x, RNeg(y))
RMul(x, y) == Rat(x[1] * y[1], x[2] * y[2])
RDiv(x, y) == Rat(x[1] * y[2], x[2] * y[1])
RLt(x, y) == x[1] * y[2] < y[1] * x[2]
RLe(x, y) == x[1] * y[2] <= y[1] * x[2]
RGe(x, y) == RLe(y, x)
RGt(x, y) == RLt(y, x)
RMin(x, y) == IF RLe(x, y) THEN x ELSE y
RMax(x, y) == IF RGe(x, y) THEN x ELSE y
RIsZero(x) == x[1] = 0

\* Python's round() to the nearest integer, ties to even. On a float, round()
\* rounds the stored binary value, which for a sum that is exactly halfway
\* between two hundredths lies a rounding error above or below it: there the
\* float result may be either neighbour, and the model takes the even one.
RoundHalfEven(x) ==
    LET q == (2 * x[1] + x[2]) \div (2 * x[2])
        tie == (2 * x[1] + x[2]) % (2 * x[2]) = 0
    IN  IF tie /\ q % 2 # 0 THEN q - 1 ELSE q

\* round(x, 2)
Round2(x) == Rat(RoundHalfEven(RMul(x, RInt(100))), 100)

-----------------------------------------------------------------------------
(* Binary64 arithmetic.                                                    *)
(* The exponential moving average of record_convergence is also computed   *)
(* as the interpreter computes it, in IEEE 754 binary64 with rounding to   *)
(* nearest, ties to even. A non-negative binary64 value is [m, e], standing *)
(* for m * 2^e, with the natural number m given by its bits, lowest first  *)
(* and no zero bit on top, and m odd (0 is [<<>>, 0]). The values met here  *)
(* are far from the exponent limits, so only the 53-bit precision acts.    *)

\* The bits of a natural number, lowest first.
RECURSIVE BitsOfNat(_)
BitsOfNat(n) == IF n = 0 THEN <<>> ELSE <<n % 2>> \o BitsOfNat(n \div 2)

\* The digits to the base 256 of the number whose digit of weight 256^(g-1)
\* is limbs[g], a natural number of any size below 2^23: the carries are
\* propagated upwards.
RECURSIVE DigitsOfLimbs(_, _, _)
DigitsOfLimbs(limbs, g, carry) ==
    IF g > Len(limbs) THEN (IF carry = 0 THEN <<>> ELSE <<carry>>)
    ELSE <<(limbs[g] + carry) % 256>>
             \o DigitsOfLimbs(limbs, g + 1, (limbs[g] + carry) \div 256)

\* 2^0 .. 2^7
Pow2 == <<1, 2, 4, 8, 16, 32, 64, 128>>

\* The bits of the number whose digit of weight 2^(k-1) is cols[k], a natural
\* number of any size up to 2^15: eight columns make a limb, the limbs are
\* turned into digits to the base 256, and the digits into bits.
BitsOfColumns(cols) ==
    LET col(k) == IF k <= Len(cols) THEN cols[k] ELSE 0
        limb(g) == col(8 * g - 7) + 2 * col(8 * g - 6) + 4 * col(8 * g - 5)
                       + 8 * col(8 * g - 4) + 16 * col(8 * g - 3)
                       + 32 * col(8 * g - 2) + 64 * col(8 * g - 1)
                       + 128 * col(8 * g)
        digits == DigitsOfLimbs([g \in 1..((Len(cols) + 7) \div 8) |-> limb(g)], 1, 0)
        raw == [k \in 1..(8 * Len(digits)) |->
                   (digits[((k - 1) \div 8) + 1] \div Pow2[((k - 1) % 8) + 1]) % 2]
        ones == {k \in 1..Len(raw) : raw[k] = 1}
    IN  IF ones = {} THEN <<>>
        ELSE SubSeq(raw, 1, CHOOSE k \in ones : \A l \in ones : l <= k)

\* a + b on bits.
BitsAdd(a, b) ==
    LET n == IF Len(a) < Len(b) THEN Len(b) ELSE Len(a)
        bit(x, k) == IF k <= Len(x) THEN x[k] ELSE 0
    IN  BitsOfColumns([k \in 1..n |-> bit(a, k) + bit(b, k)])

\* a * 2^k on bits.
BitsShl(a, k) == IF a = <<>> THEN <<>> ELSE [i \in 1..k |-> 0] \o a

\* a * b on bits: column k sums the products a[i] * b[j] with i + j - 1 = k.
BitsMul(a, b) ==
    IF a = <<>> \/ b = <<>> THEN <<>>
    ELSE BitsOfColumns(
             [k \in 1..(Len(a) + Len(b) - 1) |->
                 Cardinality({i \in 1..Len(a) :
                                 /\ k - i + 1 \in 1..Len(b)
                                 /\ a[i] = 1
                                 /\ b[k - i + 1] = 1})])

\* a < b on bits.
BitsLess(a, b) ==
    \/ Len(a) < Len(b)
    \/ /\ Len(a) = Len(b)
       /\ \E i \in 1..Len(a) :
             /\ a[i] < b[i]
             /\ \A j \in (i + 1)..Len(a) : a[j] = b[j]

\* m * 2^e with the low zero bits of m moved into the exponent.
B64Canon(m, e) ==
    LET ones == {k \in 1..Len(m) : m[k] = 1}
    IN  IF ones = {} THEN [m |-> <<>>, e |-> 0]
        ELSE LET low == CHOOSE k \in ones : \A l \in ones : k <= l
             IN  [m |-> SubSeq(m, low, Len(m)), e |-> e + low - 1]

\* The binary64 nearest to m * 2^e: m is cut to its 53 highest bits and
\* rounded up if what is cut is more than half a unit, or is half a unit and
\* the kept part is odd.
B64Round(m, e) ==
    IF Len(m) <= 53 THEN B64Canon(m, e)
    ELSE LET drop == Len(m) - 53
             kept == SubSeq(m, drop + 1, Len(m))
             half == m[drop] = 1
             more == \E i \in 1..(drop - 1) : m[i] = 1
             up == half /\ (more \/ kept[1] = 1)
         IN  B64Canon(IF up THEN BitsAdd(kept, <<1>>) ELSE kept, e + drop)

\* float(n) of a natural number below 2^31: exact.
B64OfNat(n) == B64Canon(BitsOfNat(n), 0)

\* x * y in binary64.
B64Mul(x, y) == B64Round(BitsMul(x.m, y.m), x.e + y.e)

\* x + y in binary64.
B64Add(x, y) ==
    IF x.m = <<>> THEN y
    ELSE IF y.m = <<>> THEN x
    ELSE LET e == IF x.e < y.e THEN x.e ELSE y.e
         IN  B64Round(BitsAdd(BitsShl(x.m, x.e - e), BitsShl(y.m, y.e - e)), e)

\* x < y
B64Lt(x, y) ==
    IF y.m = <<>> THEN FALSE
    ELSE IF x.m = <<>> THEN TRUE
    ELSE LET e == IF x.e < y.e THEN x.e ELSE y.e
         IN  BitsLess(BitsShl(x.m, x.e - e), BitsShl(y.m, y.e - e))

\* The number hi * 2^27 + lo on bits, for lo < 2^27.
BitsOfHiLo(hi, lo) ==
    LET low == BitsOfNat(lo)
    IN  low \o [i \in 1..(27 - Len(low)) |-> 0] \o BitsOfNat(hi)

\* alpha = 0.3 as the binary64 it is: 5404319552844595 * 2^-54.
AlphaB64 == [m |-> BitsOfHiLo(40265318, 53687091), e |-> -54]

\* (1 - alpha) as the binary64 it evaluates to: 3152519739159347 * 2^-52.
OneMinusAlphaB64 == [m |-> BitsOfHiLo(23488102, 53687091), e |-> -52]

-----------------------------------------------------------------------------
(* ConvergenceAnalyzer                                                     *)

\* float('inf'), the initial fastest_convergence_sec: above every time recorded.
Inf == 1000000

\* alpha = 0.3 of the exponential moving averages.
Alpha == Rat(3, 10)

\* ConvergenceStats(symbol=symbol): the dataclass defaults.
NewConvergenceStats ==
    [total_signals |-> 0,
     converged_signals |-> 0,
     avg_convergence_time_sec |-> RInt(0),
     fastest_convergence_sec |-> Inf,
     slowest_convergence_sec |-> 0,
     convergence_rate |-> RInt(0),
     avg_profit_on_converge |-> RInt(0),
     last_updated |-> 0]

\* The exponential moving average of record_convergence and record_outcome:
\* seeded by the value while the average is 0, else alpha*value + (1-alpha)*old.
Ema(old, value) ==
    IF RIsZero(old)
    THEN value
    ELSE RAdd(RMul(Alpha, value), RMul(RSub(RInt(1), Alpha), old))

\* converged_signals / total_signals if total_signals > 0 else 0
RateOf(converged, total) == IF total > 0 THEN Rat(converged, total) ELSE RInt(0)

\* record_convergence with the rate computed before the counters are updated.
UpdatedConvergenceStatsStaleRate(st, converged, time_seconds, profit_percent) ==
    [total_signals |-> st.total_signals + 1,
     converged_signals |->
         IF converged THEN st.converged_signals + 1 ELSE st.converged_signals,
     avg_convergence_time_sec |->
         IF converged
         THEN Ema(st.avg_convergence_time_sec, RInt(time_seconds))
         ELSE st.avg_convergence_time_sec,
     fastest_convergence_sec |->
         IF converged /\ time_seconds < st.fastest_convergence_sec
         THEN time_seconds ELSE st.fastest_convergence_sec,
     slowest_convergence_sec |->
         IF converged /\ time_seconds > st.slowest_convergence_sec
         THEN time_seconds ELSE st.slowest_convergence_sec,
     convergence_rate |-> RateOf(st.converged_signals, st.total_signals),
     avg_profit_on_converge |->
         IF converged
         THEN Ema(st.avg_profit_on_converge, RInt(profit_percent))
         ELSE st.avg_profit_on_converge,
     last_updated |-> now]

\* The fields of the record after record_convergence's update (lines 129-162).
UpdatedConvergenceStats(st, converged, time_seconds, profit_percent) ==
    LET total == st.total_signals + 1
        conv == IF converged THEN st.converged_signals + 1 ELSE st.converged_signals
    IN  [total_signals |-> total,
         converged_signals |-> conv,
         avg_convergence_time_sec |->
             IF converged
             THEN Ema(st.avg_convergence_time_sec, RInt(time_seconds))
             ELSE st.avg_convergence_time_sec,
         fastest_convergence_sec |->
             IF converged /\ time_seconds < st.fastest_convergence_sec
             THEN time_seconds ELSE st.fastest_convergence_sec,
         slowest_convergence_sec |->
             IF converged /\ time_seconds > st.slowest_convergence_sec
             THEN time_seconds ELSE st.slowest_convergence_sec,
         convergence_rate |-> RateOf(conv, total),
         avg_profit_on_converge |->
             IF converged
             THEN Ema(st.avg_profit_on_converge, RInt(profit_percent))
             ELSE st.avg_profit_on_converge,
         last_updated |-> now]

\* The membership update without the minimum of 5 signals: the whitelist
\* follows the rate from the first signal on.
RecordWhitelistNoMinimum(st, symbol) ==
    IF RGe(st.convergence_rate, Rat(6, 10))
    THEN cvWhitelist \cup {symbol}
    ELSE IF RLt(st.convergence_rate, Rat(3, 10))
    THEN cvWhitelist \ {symbol}
    ELSE cvWhitelist

\* The whitelist after record_convergence's membership update (lines 165-171).
RecordWhitelist(st, symbol) ==
    IF st.total_signals >= 5 /\ RGe(st.convergence_rate, Rat(6, 10))
    THEN cvWhitelist \cup {symbol}
    ELSE IF st.total_signals >= 5 /\ RLt(st.convergence_rate, Rat(3, 10))
    THEN cvWhitelist \ {symbol}
    ELSE cvWhitelist

\* The blacklist after record_convergence's membership update (lines 165-171).
RecordBlacklist(st, symbol) ==
    IF st.total_signals >= 5 /\ RGe(st.convergence_rate, Rat(6, 10))
    THEN cvBlacklist \ {symbol}
    ELSE IF st.total_signals >= 5 /\ RLt(st.convergence_rate, Rat(3, 10))
    THEN cvBlacklist \cup {symbol}
    ELSE cvBlacklist

\* The number of signals on record, over all symbols.
RECURSIVE SumTotals(_, _)
SumTotals(stats, S) ==
    IF S = {} THEN 0
    ELSE LET s == CHOOSE x \in S : TRUE
         IN  stats[s].total_signals + SumTotals(stats, S \ {s})

\* A dict with key k set to v.
Put(dict, k, v) == [x \in DOMAIN dict \cup {k} |-> IF x = k THEN v ELSE dict[x]]

\* record_convergence(symbol, converged, time_seconds, profit_percent)
RecordConvergence(symbol, converged, time_seconds, profit_percent) ==
    /\ SumTotals(cvStats, DOMAIN cvStats) < MaxSignals
    /\ LET old == IF symbol \in DOMAIN cvStats
                  THEN cvStats[symbol] ELSE NewConvergenceStats
           st == UpdatedConvergenceStats(old, converged, time_seconds, profit_percent)
       IN  /\ cvStats' = Put(cvStats, symbol, st)
           /\ cvWhitelist' = RecordWhitelist(st, symbol)
           /\ cvBlacklist' = RecordBlacklist(st, symbol)
    /\ cvRet' = None
    /\ UNCHANGED <<cvDb, cvLoadPc, cvLoads, now>>
    /\ UNCHANGED <<tiVars, fdVars, mtVars, b64Vars>>

\* `x or d`: d when x is None or 0.
OrDefault(x, d) == IF x = Null THEN d ELSE x

\* The ConvergenceStats load_from_database builds from a row (lines 73-91).
StatsOfRow(row) ==
    LET total == row.total
        converged == OrDefault(row.converged, 0)
    IN  [total_signals |-> total,
         converged_signals |-> converged,
         avg_convergence_time_sec |-> RInt(OrDefault(row.avg_time, 3600)),
         fastest_convergence_sec |-> OrDefault(row.min_time, 0),
         slowest_convergence_sec |-> OrDefault(row.max_time, 0),
         convergence_rate |-> RateOf(converged, total),
         avg_profit_on_converge |-> RInt(OrDefault(row.avg_profit, 0)),
         last_updated |-> now]

\* The tokens load_from_database adds to the whitelist (lines 95-96).
LoadWhitelisted(rows) ==
    {t \in DOMAIN rows : RGe(StatsOfRow(rows[t]).convergence_rate, Rat(6, 10))}

\* The tokens load_from_database adds to the blacklist (lines 97-98).
LoadBlacklisted(rows) ==
    {t \in DOMAIN rows :
        /\ ~RGe(StatsOfRow(rows[t]).convergence_rate, Rat(6, 10))
        /\ RLt(StatsOfRow(rows[t]).convergence_rate, Rat(3, 10))
        /\ rows[t].total >= 5}

\* load_from_database without a database: `if not self._db: return`.
LoadNoDb ==
    /\ ~cvDb
    /\ cvLoadPc = "idle"
    /\ cvRet' = None
    /\ UNCHANGED <<cvStats, cvBlacklist, cvWhitelist, cvDb, cvLoadPc, cvLoads, now>>
    /\ UNCHANGED <<tiVars, fdVars, mtVars, b64Vars>>

\* load_from_database up to `await cursor.fetchall()`: the query is sent.
LoadStart ==
    /\ cvDb
    /\ cvLoadPc = "idle"
    /\ cvLoads < MaxLoads
    /\ cvLoadPc' = "fetch"
    /\ cvLoads' = cvLoads + 1
    /\ cvRet' = None
    /\ UNCHANGED <<cvStats, cvBlacklist, cvWhitelist, cvDb, now>>
    /\ UNCHANGED <<tiVars, fdVars, mtVars, b64Vars>>

\* load_from_database from the arrival of the rows to its end: the loop over
\* the rows has no await, so it runs as one step.
LoadFinish(rows) ==
    /\ cvLoadPc = "fetch"
    /\ cvStats' = [t \in DOMAIN cvStats \cup DOMAIN rows |->
                      IF t \in DOMAIN rows THEN StatsOfRow(rows[t]) ELSE cvStats[t]]
    /\ cvWhitelist' = cvWhitelist \cup LoadWhitelisted(rows)
    /\ cvBlacklist' = cvBlacklist \cup LoadBlacklisted(rows)
    /\ cvLoadPc' = "idle"
    /\ cvRet' = None
    /\ UNCHANGED <<cvDb, cvLoads, now>>
    /\ UNCHANGED <<tiVars, fdVars, mtVars, b64Vars>>

\* load_from_database when the query raises: logged, nothing is loaded.
LoadFail ==
    /\ cvLoadPc = "fetch"
    /\ cvLoadPc' = "idle"
    /\ cvRet' = None
    /\ UNCHANGED <<cvStats, cvBlacklist, cvWhitelist, cvDb, cvLoads, now>>
    /\ UNCHANGED <<tiVars, fdVars, mtVars, b64Vars>>

\* The speed component without the neutral 5 of an average that is not
\* positive.
ConvSpeedScoreNoNeutral(avg_time) ==
    IF RLe(avg_time, RInt(300)) THEN RInt(10)
    ELSE IF RGe(avg_time, RInt(3600)) THEN RInt(0)
    ELSE RMul(RInt(10),
              RSub(RInt(1), RDiv(RSub(avg_time, RInt(300)), RInt(3300))))

\* The speed component of get_priority_score (lines 206-214).
ConvSpeedScore(avg_time) ==
    IF RLe(avg_time, RInt(0)) THEN RInt(5)
    ELSE IF RLe(avg_time, RInt(300)) THEN RInt(10)
    ELSE IF RGe(avg_time, RInt(3600)) THEN RInt(0)
    ELSE RMul(RInt(10),
              RSub(RInt(1), RDiv(RSub(avg_time, RInt(300)), RInt(3300))))

\* get_priority_score's score with the profit component left unclamped.
PriorityScoreOfUnclamped(stats) ==
    LET rate_score == RMul(stats.convergence_rate, RInt(10))
        speed_score == ConvSpeedScore(stats.avg_convergence_time_sec)
        profit_score == RMul(stats.avg_profit_on_converge, RInt(2))
        total_score == RAdd(RAdd(RMul(rate_score, Rat(4, 10)),
                                 RMul(speed_score, Rat(3, 10))),
                            RMul(profit_score, Rat(3, 10)))
    IN  Round2(total_score)

\* The score get_priority_score computes from a record with 3 signals or
\* more (lines 201-228).
PriorityScoreOf(stats) ==
    LET rate_score == RMul(stats.convergence_rate, RInt(10))
        speed_score == ConvSpeedScore(stats.avg_convergence_time_sec)
        profit_score == RMin(RInt(10),
                             RMax(RInt(0), RMul(stats.avg_profit_on_converge, RInt(2))))
        total_score == RAdd(RAdd(RMul(rate_score, Rat(4, 10)),
                                 RMul(speed_score, Rat(3, 10))),
                            RMul(profit_score, Rat(3, 10)))
    IN  Round2(total_score)

\* get_priority_score that scores every record, however few signals it has.
GetPriorityScoreNoThreshold(symbol) ==
    IF symbol \notin DOMAIN cvStats THEN RInt(5)
    ELSE PriorityScoreOf(cvStats[symbol])

\* get_priority_score(symbol)
GetPriorityScore(symbol) ==
    IF symbol \notin DOMAIN cvStats THEN RInt(5)
    ELSE IF cvStats[symbol].total_signals < 3 THEN RInt(5)
    ELSE PriorityScoreOf(cvStats[symbol])

\* should_signal without its convergence-rate threshold.
ConvShouldSignalNoRate(symbol, min_score) ==
    IF symbol \in cvBlacklist THEN [ok |-> FALSE, reason |-> "blacklisted"]
    ELSE IF symbol \notin DOMAIN cvStats THEN [ok |-> TRUE, reason |-> "new"]
    ELSE IF cvStats[symbol].total_signals < 3
    THEN [ok |-> TRUE, reason |-> "insufficient"]
    ELSE IF RLt(GetPriorityScore(symbol), min_score)
    THEN [ok |-> FALSE, reason |-> "score"]
    ELSE [ok |-> TRUE, reason |-> "ok"]

\* should_signal(symbol, min_score) of the ConvergenceAnalyzer: the verdict and
\* which of its return statements gave it.
ConvShouldSignal(symbol, min_score) ==
    IF symbol \in cvBlacklist THEN [ok |-> FALSE, reason |-> "blacklisted"]
    ELSE IF symbol \notin DOMAIN cvStats THEN [ok |-> TRUE, reason |-> "new"]
    ELSE IF cvStats[symbol].total_signals < 3
    THEN [ok |-> TRUE, reason |-> "insufficient"]
    ELSE IF RLt(GetPriorityScore(symbol), min_score)
    THEN [ok |-> FALSE, reason |-> "score"]
    ELSE IF RLt(cvStats[symbol].convergence_rate, Rat(3, 10))
    THEN [ok |-> FALSE, reason |-> "rate"]
    ELSE [ok |-> TRUE, reason |-> "ok"]

\* What a ConvergenceAnalyzer query returned to its caller: the operation and
\* its arguments (0 for min_score if it has none), the verdict and the kind of
\* reason of should_signal (TRUE and "" for the others), and the score.
ConvReturned(op, symbol, min_score, ok, reason, value) ==
    Some([op |-> op, symbol |-> symbol, min_score |-> min_score,
          ok |-> ok, reason |-> reason, value |-> value])

\* A caller's get_priority_score(symbol).
PriorityScoreCall(symbol) ==
    /\ cvRet' = ConvReturned("get_priority_score", symbol, RInt(0), TRUE, "",
                             GetPriorityScore(symbol))
    /\ UNCHANGED <<cvStats, cvBlacklist, cvWhitelist, cvDb, cvLoadPc, cvLoads, now>>
    /\ UNCHANGED <<tiVars, fdVars, mtVars, b64Vars>>

\* A caller's should_signal(symbol, min_score).
ConvShouldSignalCall(symbol, min_score) ==
    /\ cvRet' = ConvReturned("should_signal", symbol, min_score,
                             ConvShouldSignal(symbol, min_score).ok,
                             ConvShouldSignal(symbol, min_score).reason,
                             GetPriorityScore(symbol))
    /\ UNCHANGED <<cvStats, cvBlacklist, cvWhitelist, cvDb, cvLoadPc, cvLoads, now>>
    /\ UNCHANGED <<tiVars, fdVars, mtVars, b64Vars>>

InitConv ==
    /\ cvStats = <<>>
    /\ cvBlacklist = {}
    /\ cvWhitelist = {}
    /\ cvDb \in BOOLEAN
    /\ cvLoadPc = "idle"
    /\ cvLoads = 0
    /\ cvRet = None

NextConv ==
    \/ \E symbol \in Symbols, converged \in BOOLEAN,
          time_seconds \in ConvTimes, profit_percent \in ConvProfits :
           RecordConvergence(symbol, converged, time_seconds, profit_percent)
    \/ LoadNoDb
    \/ LoadStart
    \/ \E rows \in LoadRowSets : LoadFinish(rows)
    \/ LoadFail

\* The gate of the ConvergenceAnalyzer: signals are recorded and callers ask
\* should_signal with each min_score of MinScores.
NextConvGate ==
    \/ \E symbol \in Symbols, converged \in BOOLEAN,
          time_seconds \in ConvTimes, profit_percent \in ConvProfits :
           RecordConvergence(symbol, converged, time_seconds, profit_percent)
    \/ \E symbol \in Symbols, min_score \in MinScores :
           ConvShouldSignalCall(symbol, min_score)

\* Lines 139-147 in binary64: the average is seeded by time_seconds while it
\* is 0, else it becomes alpha * time_seconds + (1 - alpha) * average.
EmaB64(old, time_seconds) ==
    IF old.m = <<>>
    THEN B64OfNat(time_seconds)
    ELSE B64Add(B64Mul(AlphaB64, B64OfNat(time_seconds)),
                B64Mul(OneMinusAlphaB64, old))

\* record_convergence(symbol, True, time_seconds, ...) for one symbol, as far
\* as avg_convergence_time_sec goes, in binary64.
ConvergedB64(time_seconds) ==
    /\ b64Avg' = EmaB64(b64Avg, time_seconds)
    /\ b64Calls' = b64Calls + 1
    /\ b64Last' = Some([prev |-> b64Avg, time_seconds |-> time_seconds,
                        new |-> b64Avg'])
    /\ UNCHANGED <<cvVars, tiVars, fdVars, mtVars, now>>

InitB64 ==
    /\ b64Avg = B64OfNat(0)
    /\ b64Calls = 0
    /\ b64Last = None

NextB64 ==
    \E time_seconds \in B64Times :
        b64Calls < MaxB64Calls /\ ConvergedB64(time_seconds)

-----------------------------------------------------------------------------
(* TokenIntelligence                                                       *)

\* self._min_trades_for_scoring
MinTradesForScoring == 3

\* TokenStats(symbol=symbol): the dataclass defaults.
NewTokenStats ==
    [total_signals |-> 0, wins |-> 0, losses |-> 0, draws |-> 0,
     total_profit |-> RInt(0), avg_profit |-> RInt(0),
     best_trade |-> RInt(0), worst_trade |-> RInt(0),
     avg_convergence_time |-> RInt(0), fastest_convergence |-> Inf,
     long_wins |-> 0, long_total |-> 0, short_wins |-> 0, short_total |-> 0,
     recent_outcomes |-> <<>>,
     win_rate |-> RInt(0), quality_score |-> RInt(5),
     last_updated |-> 0]

\* The number of elements of seq equal to x: list.count(x).
RECURSIVE Count(_, _)
Count(seq, x) ==
    IF seq = <<>> THEN 0
    ELSE (IF Head(seq) = x THEN 1 ELSE 0) + Count(Tail(seq), x)

\* seq[-n:], the last n elements (all of them when there are fewer).
LastN(seq, n) ==
    IF Len(seq) <= n THEN seq ELSE SubSeq(seq, Len(seq) - n + 1, Len(seq))

\* The speed component of _calculate_score (lines 181-186).
TokSpeedScore(avg_time) ==
    IF RLe(avg_time, RInt(300)) THEN RInt(10)
    ELSE IF RGe(avg_time, RInt(3600)) THEN RInt(0)
    ELSE RMul(RInt(10),
              RSub(RInt(1), RDiv(RSub(avg_time, RInt(300)), RInt(3300))))

\* _calculate_score(stats): the quality_score it stores.
CalculateScore(st) ==
    IF st.total_signals < MinTradesForScoring
    THEN RInt(5)
    ELSE
        LET win_score == RMul(st.win_rate, RInt(10))
            profit_score ==
                RMax(RInt(0),
                     RMin(RInt(10), RAdd(RInt(5), RMul(st.avg_profit, Rat(5, 10)))))
            speed_score == TokSpeedScore(st.avg_convergence_time)
            recent_wins == Count(st.recent_outcomes, "win")
            recent_total == Len(st.recent_outcomes)
            consistency_score ==
                IF recent_total > 0
                THEN RMul(Rat(recent_wins, recent_total), RInt(10))
                ELSE RInt(5)
            sample_score ==
                IF st.total_signals >= 20 THEN RInt(10)
                ELSE RMul(Rat(st.total_signals, 20), RInt(10))
        IN  Round2(RAdd(RAdd(RAdd(RAdd(RMul(win_score, Rat(35, 100)),
                                       RMul(profit_score, Rat(25, 100))),
                                  RMul(speed_score, Rat(20, 100))),
                             RMul(consistency_score, Rat(10, 100))),
                        RMul(sample_score, Rat(10, 100))))

\* recent_outcomes.append(outcome) with nothing popped.
RecentAfterNoPop(recent_outcomes, outcome) ==
    Append(recent_outcomes, outcome)

\* recent_outcomes after lines 150-153: the outcome appended, and the first
\* one popped if there are more than 10.
RecentAfter(recent_outcomes, outcome) ==
    LET appended == Append(recent_outcomes, outcome)
    IN  IF Len(appended) > 10 THEN Tail(appended) ELSE appended

\* The record after lines 108-158 of record_outcome, before the score is
\* recomputed: quality_score is still the one of the previous call.
UpdatedTokenStats(st, direction, outcome, profit_percent, convergence_time) ==
    LET total == st.total_signals + 1
        wins == IF outcome = "win" THEN st.wins + 1 ELSE st.wins
        total_profit == RAdd(st.total_profit, RInt(profit_percent))
        timed == convergence_time > 0 /\ outcome # "lose"
    IN  [total_signals |-> total,
         wins |-> wins,
         losses |-> IF outcome = "lose" THEN st.losses + 1 ELSE st.losses,
         draws |-> IF outcome \notin {"win", "lose"} THEN st.draws + 1 ELSE st.draws,
         total_profit |-> total_profit,
         avg_profit |-> RDiv(total_profit, RInt(total)),
         best_trade |-> IF RGt(RInt(profit_percent), st.best_trade)
                        THEN RInt(profit_percent) ELSE st.best_trade,
         worst_trade |-> IF RLt(RInt(profit_percent), st.worst_trade)
                         THEN RInt(profit_percent) ELSE st.worst_trade,
         avg_convergence_time |->
             IF timed THEN Ema(st.avg_convergence_time, RInt(convergence_time))
             ELSE st.avg_convergence_time,
         fastest_convergence |->
             IF timed /\ convergence_time < st.fastest_convergence
             THEN convergence_time ELSE st.fastest_convergence,
         long_wins |-> IF outcome = "win" /\ direction = "LONG"
                       THEN st.long_wins + 1 ELSE st.long_wins,
         long_total |-> IF direction = "LONG"
                        THEN st.long_total + 1 ELSE st.long_total,
         short_wins |-> IF outcome = "win" /\ direction # "LONG"
                        THEN st.short_wins + 1 ELSE st.short_wins,
         short_total |-> IF direction # "LONG"
                         THEN st.short_total + 1 ELSE st.short_total,
         recent_outcomes |-> RecentAfter(st.recent_outcomes, outcome),
         win_rate |-> IF total > 0 THEN Rat(wins, total) ELSE RInt(0),
         quality_score |-> st.quality_score,
         last_updated |-> now]

\* record_outcome with the score computed from the record as it was before the
\* call (the recomputation placed first instead of last).
RecordedTokenStatsStaleScore(st, direction, outcome, profit_percent, convergence_time) ==
    [UpdatedTokenStats(st, direction, outcome, profit_percent, convergence_time)
        EXCEPT !.quality_score = CalculateScore(st)]

\* record_outcome counting a draw only for the outcome "draw", so that an
\* outcome that is none of win, lose and draw is counted nowhere.
RecordedTokenStatsDrawOnly(st, direction, outcome, profit_percent, convergence_time) ==
    LET upd == [UpdatedTokenStats(st, direction, outcome, profit_percent,
                                  convergence_time)
                   EXCEPT !.draws = IF outcome = "draw"
                                    THEN st.draws + 1 ELSE st.draws]
    IN  [upd EXCEPT !.quality_score = CalculateScore(upd)]

\* record_outcome counting a LONG outcome of any kind as a LONG win.
RecordedTokenStatsLongWinsAll(st, direction, outcome, profit_percent, convergence_time) ==
    LET upd == [UpdatedTokenStats(st, direction, outcome, profit_percent,
                                  convergence_time)
                   EXCEPT !.long_wins = IF direction = "LONG"
                                        THEN st.long_wins + 1 ELSE st.long_wins]
    IN  [upd EXCEPT !.quality_score = CalculateScore(upd)]

\* The record after the whole of record_outcome (lines 107-160).
RecordedTokenStats(st, direction, outcome, profit_percent, convergence_time) ==
    LET upd == UpdatedTokenStats(st, direction, outcome, profit_percent,
                                 convergence_time)
    IN  [upd EXCEPT !.quality_score = CalculateScore(upd)]

\* record_outcome working on a copy of the record taken before another
\* caller's update of it: what that caller recorded is overwritten.
StatsAfterOutcomeLostUpdate(stats, symbol, direction, outcome, profit_percent, convergence_time) ==
    Put(stats, symbol,
        RecordedTokenStats(NewTokenStats,
                           direction, outcome, profit_percent, convergence_time))

\* self._stats after record_outcome(symbol, ...) on the mapping stats.
StatsAfterOutcome(stats, symbol, direction, outcome, profit_percent, convergence_time) ==
    Put(stats, symbol,
        RecordedTokenStats(IF symbol \in DOMAIN stats
                           THEN stats[symbol] ELSE NewTokenStats,
                           direction, outcome, profit_percent, convergence_time))

\* record_outcome(symbol, direction, outcome, profit_percent, convergence_time)
RecordOutcome(symbol, direction, outcome, profit_percent, convergence_time) ==
    /\ tiStats' = StatsAfterOutcome(tiStats, symbol, direction, outcome,
                                    profit_percent, convergence_time)
    /\ tiVerdict' = None
    /\ tiRet' = None
    /\ UNCHANGED <<tiLoadPc, tiLoads, now>>
    /\ UNCHANGED <<cvVars, fdVars, mtVars, b64Vars>>

\* The loop of load_from_database over the rows (lines 82-84): each row
\* <<token, direction, outcome, pnl, duration>> goes through record_outcome
\* with `pnl or 0` and `duration or 0`.
RECURSIVE ReplayRows(_, _)
ReplayRows(stats, rows) ==
    IF rows = <<>> THEN stats
    ELSE ReplayRows(StatsAfterOutcome(stats, Head(rows)[1], Head(rows)[2],
                                      Head(rows)[3], OrDefault(Head(rows)[4], 0),
                                      OrDefault(Head(rows)[5], 0)),
                    Tail(rows))

\* The second loop of load_from_database (lines 87-88): every score recomputed.
RescoreAll(stats) ==
    [t \in DOMAIN stats |->
        [stats[t] EXCEPT !.quality_score = CalculateScore(stats[t])]]

\* TokenIntelligence.load_from_database up to `await cursor.fetchall()`.
TokLoadStart ==
    /\ tiLoadPc = "idle"
    /\ tiLoads < MaxLoads
    /\ tiLoadPc' = "fetch"
    /\ tiLoads' = tiLoads + 1
    /\ tiVerdict' = None
    /\ tiRet' = None
    /\ UNCHANGED <<tiStats, now>>
    /\ UNCHANGED <<cvVars, fdVars, mtVars, b64Vars>>

\* TokenIntelligence.load_from_database from the arrival of the rows to its
\* end: both loops run without an await, as one step.
TokLoadFinish(rows) ==
    /\ tiLoadPc = "fetch"
    /\ tiStats' = RescoreAll(ReplayRows(tiStats, rows))
    /\ tiLoadPc' = "idle"
    /\ tiVerdict' = None
    /\ tiRet' = None
    /\ UNCHANGED <<tiLoads, now>>
    /\ UNCHANGED <<cvVars, fdVars, mtVars, b64Vars>>

\* TokenIntelligence.load_from_database when the query raises (lines 92-93).
TokLoadFail ==
    /\ tiLoadPc = "fetch"
    /\ tiLoadPc' = "idle"
    /\ tiVerdict' = None
    /\ tiRet' = None
    /\ UNCHANGED <<tiStats, tiLoads, now>>
    /\ UNCHANGED <<cvVars, fdVars, mtVars, b64Vars>>

\* should_signal without its check of the recent streak (lines 264-268).
ShouldSignalNoStreak(symbol, direction, min_score, min_win_rate) ==
    IF symbol \notin DOMAIN tiStats
    THEN [ok |-> TRUE, reason |-> "new"]
    ELSE LET st == tiStats[symbol]
         IN  IF st.total_signals < MinTradesForScoring
             THEN [ok |-> TRUE, reason |-> "insufficient"]
             ELSE IF RLt(st.quality_score, min_score)
             THEN [ok |-> FALSE, reason |-> "score"]
             ELSE IF RLt(st.win_rate, min_win_rate)
             THEN [ok |-> FALSE, reason |-> "win_rate"]
             ELSE IF /\ direction = "LONG"
                     /\ st.long_total >= 3
                     /\ RLt(Rat(st.long_wins, st.long_total), Rat(3, 10))
             THEN [ok |-> FALSE, reason |-> "long"]
             ELSE IF /\ direction = "SHORT"
                     /\ st.short_total >= 3
                     /\ RLt(Rat(st.short_wins, st.short_total), Rat(3, 10))
             THEN [ok |-> FALSE, reason |-> "short"]
             ELSE [ok |-> TRUE, reason |-> "ok"]

\* should_signal without its checks of the direction's own record (lines
\* 253-262).
ShouldSignalNoDirection(symbol, direction, min_score, min_win_rate) ==
    IF symbol \notin DOMAIN tiStats
    THEN [ok |-> TRUE, reason |-> "new"]
    ELSE LET st == tiStats[symbol]
         IN  IF st.total_signals < MinTradesForScoring
             THEN [ok |-> TRUE, reason |-> "insufficient"]
             ELSE IF RLt(st.quality_score, min_score)
             THEN [ok |-> FALSE, reason |-> "score"]
             ELSE IF RLt(st.win_rate, min_win_rate)
             THEN [ok |-> FALSE, reason |-> "win_rate"]
             ELSE IF /\ Len(st.recent_outcomes) >= 5
                     /\ Count(LastN(st.recent_outcomes, 5), "lose") >= 4
             THEN [ok |-> FALSE, reason |-> "streak"]
             ELSE [ok |-> TRUE, reason |-> "ok"]

\* should_signal(symbol, direction, min_score, min_win_rate): the verdict and
\* which return statement gave it.
ShouldSignal(symbol, direction, min_score, min_win_rate) ==
    IF symbol \notin DOMAIN tiStats
    THEN [ok |-> TRUE, reason |-> "new"]
    ELSE LET st == tiStats[symbol]
         IN  IF st.total_signals < MinTradesForScoring
             THEN [ok |-> TRUE, reason |-> "insufficient"]
             ELSE IF RLt(st.quality_score, min_score)
             THEN [ok |-> FALSE, reason |-> "score"]
             ELSE IF RLt(st.win_rate, min_win_rate)
             THEN [ok |-> FALSE, reason |-> "win_rate"]
             ELSE IF /\ direction = "LONG"
                     /\ st.long_total >= 3
                     /\ RLt(Rat(st.long_wins, st.long_total), Rat(3, 10))
             THEN [ok |-> FALSE, reason |-> "long"]
             ELSE IF /\ direction = "SHORT"
                     /\ st.short_total >= 3
                     /\ RLt(Rat(st.short_wins, st.short_total), Rat(3, 10))
             THEN [ok |-> FALSE, reason |-> "short"]
             ELSE IF /\ Len(st.recent_outcomes) >= 5
                     /\ Count(LastN(st.recent_outcomes, 5), "lose") >= 4
             THEN [ok |-> FALSE, reason |-> "streak"]
             ELSE [ok |-> TRUE, reason |-> "ok"]

\* A caller's should_signal(symbol, direction, min_score, min_win_rate): the
\* engine is only read; the call and what it returned are kept in tiVerdict.
ShouldSignalCall(symbol, direction, min_score, min_win_rate) ==
    /\ tiVerdict' = Some([symbol |-> symbol, direction |-> direction,
                          min_score |-> min_score, min_win_rate |-> min_win_rate,
                          result |-> ShouldSignal(symbol, direction, min_score,
                                                  min_win_rate)])
    /\ tiRet' = None
    /\ UNCHANGED <<tiStats, tiLoadPc, tiLoads, now>>
    /\ UNCHANGED <<cvVars, fdVars, mtVars, b64Vars>>

\* get_score(symbol): the stored quality_score, 5.0 without a record.
GetScore(symbol) ==
    IF symbol \in DOMAIN tiStats THEN tiStats[symbol].quality_score ELSE RInt(5)

\* get_signal_modifier(symbol, direction)
GetSignalModifier(symbol, direction) ==
    IF symbol \notin DOMAIN tiStats THEN RInt(1)
    ELSE LET st == tiStats[symbol]
         IN  IF st.total_signals < 3 THEN RInt(1)
             ELSE LET score_modifier ==
                          RAdd(Rat(1, 2), RMul(RDiv(st.quality_score, RInt(10)), RInt(1)))
                      dir_modifier ==
                          IF direction = "LONG" /\ st.long_total >= 3
                          THEN RAdd(Rat(7, 10),
                                    RMul(Rat(st.long_wins, st.long_total), Rat(6, 10)))
                          ELSE IF direction = "SHORT" /\ st.short_total >= 3
                          THEN RAdd(Rat(7, 10),
                                    RMul(Rat(st.short_wins, st.short_total), Rat(6, 10)))
                          ELSE RInt(1)
                  IN  RDiv(RAdd(score_modifier, dir_modifier), RInt(2))

\* What a get_score or get_signal_modifier call returned to its caller: the
\* operation, its arguments ("" for the direction get_score does not have) and
\* the value.
TokReturned(op, symbol, direction, value) ==
    Some([op |-> op, symbol |-> symbol, direction |-> direction, value |-> value])

\* A caller's get_score(symbol).
GetScoreCall(symbol) ==
    /\ tiRet' = TokReturned("get_score", symbol, "", GetScore(symbol))
    /\ tiVerdict' = None
    /\ UNCHANGED <<tiStats, tiLoadPc, tiLoads, now>>
    /\ UNCHANGED <<cvVars, fdVars, mtVars, b64Vars>>

\* A caller's get_signal_modifier(symbol, direction).
SignalModifierCall(symbol, direction) ==
    /\ tiRet' = TokReturned("get_signal_modifier", symbol, direction,
                            GetSignalModifier(symbol, direction))
    /\ tiVerdict' = None
    /\ UNCHANGED <<tiStats, tiLoadPc, tiLoads, now>>
    /\ UNCHANGED <<cvVars, fdVars, mtVars, b64Vars>>

InitTok ==
    /\ tiStats = <<>>
    /\ tiLoadPc = "idle"
    /\ tiLoads = 0
    /\ tiVerdict = None
    /\ tiRet = None

\* record_outcome calls and loads from the store.
NextTok ==
    \/ \E symbol \in Symbols, c \in TokCalls :
           /\ SumTotals(tiStats, DOMAIN tiStats) < MaxOutcomes
           /\ RecordOutcome(symbol, c[1], c[2], c[3], c[4])
    \/ TokLoadStart
    \/ \E rows \in TokRowSets :
           /\ SumTotals(tiStats, DOMAIN tiStats) + Len(rows) <= MaxOutcomes
           /\ TokLoadFinish(rows)
    \/ TokLoadFail

\* record_outcome calls and should_signal calls.
NextTokGate ==
    \/ \E symbol \in GateSymbols, c \in TokGateCalls :
           /\ SumTotals(tiStats, DOMAIN tiStats) < MaxGateOutcomes
           /\ RecordOutcome(symbol, c[1], c[2], c[3], c[4])
    \/ \E symbol \in Symbols, direction \in Directions,
          min_score \in MinScores, min_win_rate \in MinWinRates :
           ShouldSignalCall(symbol, direction, min_score, min_win_rate)

\* record_outcome calls for one symbol, enough of them to fill recent_outcomes.
NextTokWindow ==
    \E symbol \in GateSymbols, c \in TokWindowCalls :
        /\ SumTotals(tiStats, DOMAIN tiStats) < MaxWindowOutcomes
        /\ RecordOutcome(symbol, c[1], c[2], c[3], c[4])

-----------------------------------------------------------------------------
(* FundingTracker                                                          *)

\* self._cache_ttl
CacheTtl == 300

\* The cache check of fetch_funding_rate with the comparison turned around.
CacheHitInverted(symbol) ==
    /\ symbol \in DOMAIN fdCache
    /\ (now - fdCache[symbol].last_updated) > CacheTtl

\* fetch_funding_rate's cache check (lines 59-60).
CacheHit(symbol) ==
    /\ symbol \in DOMAIN fdCache
    /\ (now - fdCache[symbol].last_updated) < CacheTtl

\* The FundingInfo built from the data of a response (lines 73-79, 108-114).
FundingInfoOf(symbol, data) ==
    [symbol |-> symbol,
     funding_rate |-> data.fundingRate,
     next_funding_time |-> data.nextSettleTime,
     predicted_rate |-> data.expectedFundingRate,
     last_updated |-> now]

\* What a call returned to its caller: the operation and its arguments (""
\* and 0 for the arguments it does not have), the FundingInfo it returned or
\* read (None if none), the number it returned (0 if it returns none) and the
\* dict it returned (empty if it returns none).
Returned(op, symbol, direction, hold_hours, info, value, rates) ==
    Some([op |-> op, symbol |-> symbol, direction |-> direction,
          hold_hours |-> hold_hours, info |-> info, value |-> value,
          rates |-> rates])

\* A coroutine that is in no fetch.
IdleTask == [pc |-> "idle", symbol |-> ""]

\* fetch_funding_rate(symbol) from the call to its first suspension: a fresh
\* cached snapshot is returned at once; otherwise the session is made if there
\* is none and the request is sent.
FetchFundingRateCall(t, symbol) ==
    /\ fdTasks[t].pc = "idle"
    /\ IF CacheHit(symbol)
       THEN /\ fdRet' = Returned("fetch_funding_rate", symbol, "", RInt(0),
                                 Some(fdCache[symbol]), RInt(0), <<>>)
            /\ UNCHANGED <<fdCache, fdSession, fdTasks>>
       ELSE /\ fdSession' = "open"
            /\ fdTasks' = [fdTasks EXCEPT ![t] = [pc |-> "one", symbol |-> symbol]]
            /\ fdRet' = None
            /\ UNCHANGED fdCache
    /\ UNCHANGED <<cvVars, tiVars, mtVars, b64Vars, now>>

\* fetch_funding_rate from the arrival of the response to its return.
FetchFundingRateResponse(t, resp) ==
    /\ fdTasks[t].pc = "one"
    /\ LET symbol == fdTasks[t].symbol
       IN  IF resp.kind = "ok"
           THEN /\ fdCache' = Put(fdCache, symbol, FundingInfoOf(symbol, resp.data))
                /\ fdRet' = Returned("fetch_funding_rate", symbol, "", RInt(0),
                                     Some(FundingInfoOf(symbol, resp.data)),
                                     RInt(0), <<>>)
           ELSE /\ fdRet' = Returned("fetch_funding_rate", symbol, "", RInt(0),
                                     None, RInt(0), <<>>)
                /\ UNCHANGED fdCache
    /\ fdTasks' = [fdTasks EXCEPT ![t] = IdleTask]
    /\ UNCHANGED <<fdSession, cvVars, tiVars, mtVars, b64Vars, now>>

\* fetch_all_funding_rates() up to its suspension: the request is sent.
FetchAllCall(t) ==
    /\ fdTasks[t].pc = "idle"
    /\ fdSession' = "open"
    /\ fdTasks' = [fdTasks EXCEPT ![t] = [pc |-> "all", symbol |-> ""]]
    /\ fdRet' = None
    /\ UNCHANGED <<fdCache, cvVars, tiVars, mtVars, b64Vars, now>>

\* The loop of fetch_all_funding_rates over the items (lines 103-115): items
\* whose symbol does not end in _USDT are skipped, an item float() or int()
\* raises on ends the loop, the others are cached under symbol_full[:-5].
RECURSIVE CacheAfterItems(_, _)
CacheAfterItems(cache, items) ==
    IF items = <<>> THEN cache
    ELSE LET item == Head(items)
         IN  IF item.quote # "USDT" THEN CacheAfterItems(cache, Tail(items))
             ELSE IF ~item.valid THEN cache
             ELSE CacheAfterItems(Put(cache, item.base,
                                      FundingInfoOf(item.base, item.data)),
                                  Tail(items))

\* Whether the loop over the items raises.
RECURSIVE ItemsRaise(_)
ItemsRaise(items) ==
    IF items = <<>> THEN FALSE
    ELSE (Head(items).quote = "USDT" /\ ~Head(items).valid) \/ ItemsRaise(Tail(items))

\* Whether fetch_all_funding_rates fails on the response: it is no data, or the
\* loop over its items raises.
AllFails(resp) == resp.kind # "ok" \/ ItemsRaise(resp.data)

\* fetch_all_funding_rates from the arrival of the response to its return: the
\* cache itself on success, an empty dict otherwise.
FetchAllResponse(t, resp) ==
    /\ fdTasks[t].pc = "all"
    /\ fdCache' = IF resp.kind = "ok" THEN CacheAfterItems(fdCache, resp.data)
                  ELSE fdCache
    /\ fdRet' = Returned("fetch_all_funding_rates", "", "", RInt(0), None, RInt(0),
                       IF AllFails(resp) THEN <<>> ELSE fdCache')
    /\ fdTasks' = [fdTasks EXCEPT ![t] = IdleTask]
    /\ UNCHANGED <<fdSession, cvVars, tiVars, mtVars, b64Vars, now>>

\* close()
Close ==
    /\ fdSession = "open"
    /\ fdSession' = "closed"
    /\ fdRet' = None
    /\ UNCHANGED <<fdCache, fdTasks, cvVars, tiVars, mtVars, b64Vars, now>>

\* get_cached_rate(symbol)
GetCachedRate(symbol) ==
    IF symbol \in DOMAIN fdCache THEN fdCache[symbol].funding_rate ELSE RInt(0)

\* calculate_funding_cost with the payer and the receiver exchanged.
CalculateFundingCostSwapped(symbol, direction, hold_hours) ==
    IF symbol \notin DOMAIN fdCache THEN RInt(0)
    ELSE LET funding_periods == RDiv(hold_hours, RInt(8))
             rate == RMul(fdCache[symbol].funding_rate, RInt(100))
         IN  IF direction = "LONG"
             THEN RMul(rate, funding_periods)
             ELSE RMul(RNeg(rate), funding_periods)

\* calculate_funding_cost(symbol, direction, hold_hours)
CalculateFundingCost(symbol, direction, hold_hours) ==
    IF symbol \notin DOMAIN fdCache THEN RInt(0)
    ELSE LET funding_periods == RDiv(hold_hours, RInt(8))
             rate == RMul(fdCache[symbol].funding_rate, RInt(100))
         IN  IF direction = "LONG"
             THEN RMul(RNeg(rate), funding_periods)
             ELSE RMul(rate, funding_periods)

\* get_funding_adjustment that never looks at the predicted rate.
GetFundingAdjustmentCurrentOnly(symbol, direction) ==
    IF symbol \notin DOMAIN fdCache THEN RInt(0)
    ELSE LET rate_pct == RMul(fdCache[symbol].funding_rate, RInt(100))
         IN  IF direction = "LONG"
             THEN RMul(rate_pct, Rat(3, 10))
             ELSE RMul(RNeg(rate_pct), Rat(3, 10))

\* get_funding_adjustment(symbol, direction)
GetFundingAdjustment(symbol, direction) ==
    IF symbol \notin DOMAIN fdCache THEN RInt(0)
    ELSE LET info == fdCache[symbol]
             rate == IF ~RIsZero(info.predicted_rate)
                     THEN info.predicted_rate ELSE info.funding_rate
             rate_pct == RMul(rate, RInt(100))
             avg_funding_events == Rat(3, 10)
         IN  IF direction = "LONG"
             THEN RMul(rate_pct, avg_funding_events)
             ELSE RMul(RNeg(rate_pct), avg_funding_events)

\* self._funding_cache.get(symbol), as the three getters read it.
CachedInfo(symbol) ==
    IF symbol \in DOMAIN fdCache THEN Some(fdCache[symbol]) ELSE None

\* A caller's get_cached_rate(symbol).
CachedRateCall(symbol) ==
    /\ fdRet' = Returned("get_cached_rate", symbol, "", RInt(0),
                       CachedInfo(symbol), GetCachedRate(symbol), <<>>)
    /\ UNCHANGED <<fdCache, fdSession, fdTasks, cvVars, tiVars, mtVars, b64Vars, now>>

\* A caller's calculate_funding_cost(symbol, direction, hold_hours).
FundingCostCall(symbol, direction, hold_hours) ==
    /\ fdRet' = Returned("calculate_funding_cost", symbol, direction, hold_hours,
                       CachedInfo(symbol),
                       CalculateFundingCost(symbol, direction, hold_hours), <<>>)
    /\ UNCHANGED <<fdCache, fdSession, fdTasks, cvVars, tiVars, mtVars, b64Vars, now>>

\* A caller's get_funding_adjustment(symbol, direction).
FundingAdjustmentCall(symbol, direction) ==
    /\ fdRet' = Returned("get_funding_adjustment", symbol, direction, RInt(0),
                       CachedInfo(symbol),
                       GetFundingAdjustment(symbol, direction), <<>>)
    /\ UNCHANGED <<fdCache, fdSession, fdTasks, cvVars, tiVars, mtVars, b64Vars, now>>

\* Time passes between two steps.
Tick(d) ==
    /\ now + d <= MaxTime
    /\ now' = now + d
    /\ fdRet' = None
    /\ mtRet' = None
    /\ UNCHANGED <<fdCache, fdSession, fdTasks, cvVars, tiVars, mtHistory, mtCache, b64Vars>>

InitFund ==
    /\ fdCache = <<>>
    /\ fdSession = "none"
    /\ fdTasks = [t \in Tasks |-> IdleTask]
    /\ fdRet = None

NextFund ==
    \/ \E t \in Tasks, symbol \in Symbols : FetchFundingRateCall(t, symbol)
    \/ \E t \in Tasks, resp \in OneResponses : FetchFundingRateResponse(t, resp)
    \/ \E t \in Tasks : FetchAllCall(t)
    \/ \E t \in Tasks, resp \in AllResponses : FetchAllResponse(t, resp)
    \/ Close
    \/ \E symbol \in Symbols : CachedRateCall(symbol)
    \/ \E symbol \in Symbols, direction \in Directions, hold_hours \in HoldHours :
          FundingCostCall(symbol, direction, hold_hours)
    \/ \E symbol \in Symbols, direction \in Directions :
          FundingAdjustmentCall(symbol, direction)
    \/ \E d \in TickSteps : Tick(d)

-----------------------------------------------------------------------------
(* MomentumTracker                                                         *)

\* self._max_history, the default max_history_sec of __init__.
MaxHistory == 600

\* maxlen of the deque record_price makes for a symbol.
HistoryMaxLen == 1000

\* round(x, 1)
Round1(x) == Rat(RoundHalfEven(RMul(x, RInt(10))), 10)

\* deque.append on a deque with maxlen: a full deque drops its leftmost item.
DequeAppend(history, point) ==
    IF Len(history) >= HistoryMaxLen
    THEN Append(Tail(history), point)
    ELSE Append(history, point)

\* The while loop of record_price: popleft while the first timestamp is below
\* the cutoff, which leaves the points from the first one that is not.
DropOld(history, cutoff) ==
    LET first == CHOOSE i \in 1..(Len(history) + 1) :
                     /\ i = Len(history) + 1 \/ history[i].timestamp >= cutoff
                     /\ \A j \in 1..(i - 1) : history[j].timestamp < cutoff
    IN  SubSeq(history, first, Len(history))

\* record_price that appends and never cleans old entries.
HistoryAfterRecordNoClean(history, symbol, price) ==
    LET old == IF symbol \in DOMAIN history THEN history[symbol] ELSE <<>>
    IN  Put(history, symbol,
            DequeAppend(old, [price |-> price, timestamp |-> now]))

\* The price history after record_price(symbol, price).
HistoryAfterRecord(history, symbol, price) ==
    LET old == IF symbol \in DOMAIN history THEN history[symbol] ELSE <<>>
        appended == DequeAppend(old, [price |-> price, timestamp |-> now])
        cutoff == now - MaxHistory
    IN  Put(history, symbol, DropOld(appended, cutoff))

\* The loop of _get_price_at_age: the index of the first point whose distance
\* to target_time is the least (a later point replaces the closest one only if
\* it is strictly closer).
ClosestIndex(points, target_time) ==
    LET diff(i) == Abs(points[i].timestamp - target_time)
        diffs == {diff(i) : i \in 1..Len(points)}
        closest_diff == CHOOSE x \in diffs : \A y \in diffs : x <= y
    IN  CHOOSE i \in 1..Len(points) :
            /\ diff(i) = closest_diff
            /\ \A j \in 1..(i - 1) : diff(j) # closest_diff

\* _get_price_at_age(symbol, age_seconds) on the history given: the price of
\* the closest point if it is within 30% of the age, else None.
GetPriceAtAge(history, symbol, age_seconds) ==
    IF symbol \notin DOMAIN history \/ history[symbol] = <<>> THEN None
    ELSE LET points == history[symbol]
             target_time == now - age_seconds
             k == ClosestIndex(points, target_time)
             closest_diff == Abs(points[k].timestamp - target_time)
         IN  IF 10 * closest_diff < 3 * age_seconds
             THEN Some(points[k].price)
             ELSE None

\* ((current_price - price) / price) * 100 when the past price is there and
\* positive, else 0 (lines 109-116).
ChangePct(current_price, past) ==
    IF past # None /\ Get(past) > 0
    THEN RMul(Rat(current_price - Get(past), Get(past)), RInt(100))
    ELSE RInt(0)

\* change_1m * 0.6 + change_5m * 0.4
WeightedChange(change_1m, change_5m) ==
    RAdd(RMul(change_1m, Rat(6, 10)), RMul(change_5m, Rat(4, 10)))

\* The trend of _calculate_trend (lines 147-152).
TrendOf(change_1m, change_5m) ==
    LET weighted_change == WeightedChange(change_1m, change_5m)
    IN  IF RGt(weighted_change, Rat(1, 2)) THEN "bullish"
        ELSE IF RLt(weighted_change, Rat(-1, 2)) THEN "bearish"
        ELSE "neutral"

\* The strength of _calculate_trend without its caps at 10.
StrengthOfUncapped(change_1m, change_5m) ==
    LET weighted_change == WeightedChange(change_1m, change_5m)
        w == IF weighted_change[1] < 0 THEN RNeg(weighted_change) ELSE weighted_change
        base == RMul(w, RInt(2))
        product == RMul(change_1m, change_5m)
        strength == IF product[1] > 0 THEN RMul(base, Rat(13, 10))
                    ELSE IF product[1] < 0 THEN RMul(base, Rat(7, 10))
                    ELSE base
    IN  Round1(strength)

\* The strength of _calculate_trend (lines 156-164).
StrengthOf(change_1m, change_5m) ==
    LET weighted_change == WeightedChange(change_1m, change_5m)
        w == IF weighted_change[1] < 0 THEN RNeg(weighted_change) ELSE weighted_change
        base == RMin(RInt(10), RMul(w, RInt(2)))
        product == RMul(change_1m, change_5m)
        strength == IF product[1] > 0 THEN RMin(RInt(10), RMul(base, Rat(13, 10)))
                    ELSE IF product[1] < 0 THEN RMul(base, Rat(7, 10))
                    ELSE base
    IN  Round1(strength)

\* The MomentumData analyze_momentum builds from the history it has just
\* recorded current_price into (lines 105-131).
MomentumOf(history, symbol, current_price) ==
    LET price_1m == GetPriceAtAge(history, symbol, 60)
        price_5m == GetPriceAtAge(history, symbol, 300)
        change_1m == ChangePct(current_price, price_1m)
        change_5m == ChangePct(current_price, price_5m)
    IN  [symbol |-> symbol,
         current_price |-> current_price,
         price_1m |-> price_1m,
         price_5m |-> price_5m,
         change_1m |-> change_1m,
         change_5m |-> change_5m,
         trend |-> TrendOf(change_1m, change_5m),
         strength |-> StrengthOf(change_1m, change_5m),
         last_updated |-> now]

\* What a MomentumTracker call returned to its caller: the operation and its
\* arguments ("" and 0 for the arguments it does not have), the verdict and
\* the kind of reason of confirms_direction (TRUE and "" for the others), the
\* number returned (0 if none) and the MomentumData returned (None if none).
MomReturned(op, symbol, direction, min_strength, ok, reason, value, data) ==
    Some([op |-> op, symbol |-> symbol, direction |-> direction,
          min_strength |-> min_strength, ok |-> ok, reason |-> reason,
          value |-> value, data |-> data])

\* record_price(symbol, price)
RecordPrice(symbol, price) ==
    /\ mtHistory' = HistoryAfterRecord(mtHistory, symbol, price)
    /\ mtRet' = MomReturned("record_price", symbol, "", RInt(0), TRUE, "",
                            RInt(0), None)
    /\ UNCHANGED <<mtCache, cvVars, tiVars, fdVars, b64Vars, now>>

\* analyze_momentum(symbol, current_price): records the price, analyzes the
\* history, caches and returns the result.
AnalyzeMomentum(symbol, current_price) ==
    /\ mtHistory' = HistoryAfterRecord(mtHistory, symbol, current_price)
    /\ mtCache' = Put(mtCache, symbol, MomentumOf(mtHistory', symbol, current_price))
    /\ mtRet' = MomReturned("analyze_momentum", symbol, "", RInt(0), TRUE, "",
                            RInt(0), Some(mtCache'[symbol]))
    /\ UNCHANGED <<cvVars, tiVars, fdVars, b64Vars, now>>

\* self._momentum_cache.get(symbol)
CachedMomentum(symbol) ==
    IF symbol \in DOMAIN mtCache THEN Some(mtCache[symbol]) ELSE None

\* A caller's get_cached_momentum(symbol).
GetCachedMomentumCall(symbol) ==
    /\ mtRet' = MomReturned("get_cached_momentum", symbol, "", RInt(0), TRUE, "",
                            RInt(0), CachedMomentum(symbol))
    /\ UNCHANGED <<mtHistory, mtCache, cvVars, tiVars, fdVars, b64Vars, now>>

\* confirms_direction that lets every opposing trend pass.
ConfirmsDirectionNoVeto(symbol, direction, min_strength) ==
    IF symbol \notin DOMAIN mtCache THEN [ok |-> TRUE, reason |-> "no_data"]
    ELSE LET momentum == mtCache[symbol]
             strong == RGe(momentum.strength, min_strength)
         IN  IF direction = "LONG" /\ momentum.trend = "bullish" /\ strong
             THEN [ok |-> TRUE, reason |-> "confirms"]
             ELSE IF direction = "SHORT" /\ momentum.trend = "bearish" /\ strong
             THEN [ok |-> TRUE, reason |-> "confirms"]
             ELSE [ok |-> TRUE, reason |-> "weak"]

\* confirms_direction(symbol, direction, min_strength): the verdict and which
\* of the four return statements gave it.
ConfirmsDirection(symbol, direction, min_strength) ==
    IF symbol \notin DOMAIN mtCache THEN [ok |-> TRUE, reason |-> "no_data"]
    ELSE LET momentum == mtCache[symbol]
             strong == RGe(momentum.strength, min_strength)
         IN  IF direction = "LONG" /\ momentum.trend = "bearish" /\ strong
             THEN [ok |-> FALSE, reason |-> "contradicts"]
             ELSE IF direction = "LONG" /\ momentum.trend = "bullish" /\ strong
             THEN [ok |-> TRUE, reason |-> "confirms"]
             ELSE IF direction = "SHORT" /\ momentum.trend = "bullish" /\ strong
             THEN [ok |-> FALSE, reason |-> "contradicts"]
             ELSE IF direction = "SHORT" /\ momentum.trend = "bearish" /\ strong
             THEN [ok |-> TRUE, reason |-> "confirms"]
             ELSE [ok |-> TRUE, reason |-> "weak"]

\* A caller's confirms_direction(symbol, direction, min_strength).
ConfirmsDirectionCall(symbol, direction, min_strength) ==
    /\ mtRet' = MomReturned("confirms_direction", symbol, direction, min_strength,
                            ConfirmsDirection(symbol, direction, min_strength).ok,
                            ConfirmsDirection(symbol, direction, min_strength).reason,
                            RInt(0), CachedMomentum(symbol))
    /\ UNCHANGED <<mtHistory, mtCache, cvVars, tiVars, fdVars, b64Vars, now>>

\* get_momentum_bonus(symbol, direction)
GetMomentumBonus(symbol, direction) ==
    IF symbol \notin DOMAIN mtCache THEN RInt(1)
    ELSE LET momentum == mtCache[symbol]
             aligned == \/ (direction = "LONG" /\ momentum.trend = "bullish")
                        \/ (direction = "SHORT" /\ momentum.trend = "bearish")
             opposite == \/ (direction = "LONG" /\ momentum.trend = "bearish")
                         \/ (direction = "SHORT" /\ momentum.trend = "bullish")
         IN  IF aligned THEN RAdd(RInt(1), RMul(momentum.strength, Rat(5, 100)))
             ELSE IF opposite
             THEN RSub(RInt(1), RMul(momentum.strength, Rat(5, 100)))
             ELSE RInt(1)

\* A caller's get_momentum_bonus(symbol, direction).
MomentumBonusCall(symbol, direction) ==
    /\ mtRet' = MomReturned("get_momentum_bonus", symbol, direction, RInt(0),
                            TRUE, "", GetMomentumBonus(symbol, direction),
                            CachedMomentum(symbol))
    /\ UNCHANGED <<mtHistory, mtCache, cvVars, tiVars, fdVars, b64Vars, now>>

\* Time passes between two MomentumTracker calls.
MomTick(d) ==
    /\ now' = now + d
    /\ mtRet' = None
    /\ UNCHANGED <<mtHistory, mtCache, cvVars, tiVars, fdVars, b64Vars>>

\* The number of price points on record, over all symbols.
RECURSIVE SumLens(_, _)
SumLens(history, S) ==
    IF S = {} THEN 0
    ELSE LET s == CHOOSE x \in S : TRUE
         IN  Len(history[s]) + SumLens(history, S \ {s})

InitMom ==
    /\ mtHistory = <<>>
    /\ mtCache = <<>>
    /\ mtRet = None

NextMom ==
    \/ \E symbol \in MomSymbols, price \in MomPrices :
          /\ SumLens(mtHistory, DOMAIN mtHistory) < MaxSamples
          /\ RecordPrice(symbol, price)
    \/ \E symbol \in MomSymbols, price \in MomPrices :
          /\ SumLens(mtHistory, DOMAIN mtHistory) < MaxSamples
          /\ AnalyzeMomentum(symbol, price)
    \/ \E symbol \in Symbols : GetCachedMomentumCall(symbol)
    \/ \E d \in MomTickSteps : now + d <= MomMaxTime /\ MomTick(d)

\* The same with the queries of the gate, on a clock that stops earlier.
NextMomGate ==
    \/ \E symbol \in MomSymbols, price \in MomPrices :
          /\ SumLens(mtHistory, DOMAIN mtHistory) < MaxGateSamples
          /\ RecordPrice(symbol, price)
    \/ \E symbol \in MomSymbols, price \in MomPrices :
          /\ SumLens(mtHistory, DOMAIN mtHistory) < MaxGateSamples
          /\ AnalyzeMomentum(symbol, price)
    \/ \E symbol \in Symbols : GetCachedMomentumCall(symbol)
    \/ \E symbol \in Symbols, direction \in Directions, min_strength \in MinStrengths :
          ConfirmsDirectionCall(symbol, direction, min_strength)
    \/ \E symbol \in Symbols, direction \in Directions :
          MomentumBonusCall(symbol, direction)
    \/ \E d \in MomTickSteps : now + d <= MomGateMaxTime /\ MomTick(d)

\* Bursts of record_price and analyze_momentum calls for one symbol, as many
\* as the deque holds and more.
NextMomBurst ==
    \/ \E symbol \in MomSymbols, price \in BurstPrices : RecordPrice(symbol, price)
    \/ \E symbol \in MomSymbols, price \in BurstPrices : AnalyzeMomentum(symbol, price)
    \/ \E d \in BurstTickSteps : now + d <= BurstMaxTime /\ MomTick(d)

\* The two scoring engines side by side: record_convergence and record_outcome
\* calls for one symbol, and get_priority_score calls.
NextScores ==
    \/ \E symbol \in GateSymbols, c \in ScoreConvCalls :
           /\ SumTotals(cvStats, DOMAIN cvStats) < MaxScoreSignals
           /\ RecordConvergence(symbol, c[1], c[2], c[3])
    \/ \E symbol \in GateSymbols, c \in ScoreTokCalls :
           /\ SumTotals(tiStats, DOMAIN tiStats) < MaxScoreOutcomes
           /\ RecordOutcome(symbol, c[1], c[2], c[3], c[4])
    \/ \E symbol \in Symbols : PriorityScoreCall(symbol)

\* How many mutations the four engines have on record together.
MutationsOnRecord ==
    SumTotals(cvStats, DOMAIN cvStats) + SumTotals(tiStats, DOMAIN tiStats)
        + SumLens(mtHistory, DOMAIN mtHistory) + Cardinality(DOMAIN fdCache)

\* No query of the engine is waiting to be looked at by its caller.
ConvQuiet == cvRet = None
TokQuiet == tiVerdict = None /\ tiRet = None
FundQuiet ==
    IF fdRet = None THEN TRUE
    ELSE Get(fdRet).op \in {"fetch_funding_rate", "fetch_all_funding_rates"}
MomQuiet ==
    IF mtRet = None THEN TRUE
    ELSE Get(mtRet).op \in {"record_price", "analyze_momentum"}

\* The four engines side by side: the symbols of GateSymbols get signals,
\* outcomes, prices and funding rates, the others never do, and callers put
\* every query to every symbol. The queries of one engine are looked at before
\* those of another are made.
NextDefaults ==
    \/ \E symbol \in GateSymbols, c \in ScoreConvCalls :
           /\ MutationsOnRecord < MaxDefaultSteps
           /\ RecordConvergence(symbol, c[1], c[2], c[3])
    \/ \E symbol \in GateSymbols, c \in TokGateCalls :
           /\ MutationsOnRecord < MaxDefaultSteps
           /\ RecordOutcome(symbol, c[1], c[2], c[3], c[4])
    \/ \E symbol \in GateSymbols, price \in MomPrices :
           /\ MutationsOnRecord < MaxDefaultSteps
           /\ RecordPrice(symbol, price)
    \/ \E symbol \in GateSymbols, price \in MomPrices :
           /\ MutationsOnRecord < MaxDefaultSteps
           /\ AnalyzeMomentum(symbol, price)
    \/ \E symbol \in GateSymbols :
           /\ MutationsOnRecord < MaxDefaultSteps
           /\ FetchFundingRateCall(1, symbol)
    \/ \E resp \in OneResponses : FetchFundingRateResponse(1, resp)
    \/ \E symbol \in Symbols :
           /\ TokQuiet /\ FundQuiet /\ MomQuiet
           /\ PriorityScoreCall(symbol)
    \/ \E symbol \in Symbols, min_score \in MinScores :
           /\ TokQuiet /\ FundQuiet /\ MomQuiet
           /\ ConvShouldSignalCall(symbol, min_score)
    \/ \E symbol \in Symbols :
           /\ ConvQuiet /\ FundQuiet /\ MomQuiet
           /\ GetScoreCall(symbol)
    \/ \E symbol \in Symbols, direction \in Directions :
           /\ ConvQuiet /\ FundQuiet /\ MomQuiet
           /\ SignalModifierCall(symbol, direction)
    \/ \E symbol \in Symbols, direction \in Directions,
          min_score \in MinScores, min_win_rate \in MinWinRates :
           /\ ConvQuiet /\ FundQuiet /\ MomQuiet
           /\ ShouldSignalCall(symbol, direction, min_score, min_win_rate)
    \/ \E symbol \in Symbols, direction \in Directions, hold_hours \in HoldHours :
           /\ ConvQuiet /\ TokQuiet /\ MomQuiet
           /\ FundingCostCall(symbol, direction, hold_hours)
    \/ \E symbol \in Symbols, direction \in Directions :
           /\ ConvQuiet /\ TokQuiet /\ MomQuiet
           /\ FundingAdjustmentCall(symbol, direction)
    \/ \E symbol \in Symbols, direction \in Directions, min_strength \in MinStrengths :
           /\ ConvQuiet /\ TokQuiet /\ FundQuiet
           /\ ConfirmsDirectionCall(symbol, direction, min_strength)
    \/ \E symbol \in Symbols, direction \in Directions :
           /\ ConvQuiet /\ TokQuiet /\ FundQuiet
           /\ MomentumBonusCall(symbol, direction)

\* The two multipliers: prices that move by a quarter within a minute are
\* analyzed, outcomes are recorded, and callers ask get_momentum_bonus and
\* get_signal_modifier for every symbol and direction.
NextMultipliers ==
    \/ \E symbol \in MomSymbols, price \in MultPrices :
          /\ SumLens(mtHistory, DOMAIN mtHistory) < MaxMultSamples
          /\ AnalyzeMomentum(symbol, price)
    \/ \E d \in MultTickSteps : now + d <= MultMaxTime /\ MomTick(d)
    \/ \E symbol \in GateSymbols, c \in MultTokCalls :
          /\ SumTotals(tiStats, DOMAIN tiStats) < MaxMultOutcomes
          /\ RecordOutcome(symbol, c[1], c[2], c[3], c[4])
    \/ \E symbol \in Symbols, direction \in Directions :
          TokQuiet /\ MomentumBonusCall(symbol, direction)
    \/ \E symbol \in Symbols, direction \in Directions :
          MomQuiet /\ SignalModifierCall(symbol, direction)

\* Concurrent callers of the two scoring engines on one event loop: signals
\* and outcomes are recorded for the same symbol, queries are put, and a
\* load_from_database of each engine is suspended at its await meanwhile. A
\* coroutine gives way to another only at an await, and record_convergence,
\* record_outcome and the queries have none: each is one step.
NextAtomic ==
    \/ \E symbol \in GateSymbols, c \in AtomicConvCalls :
           /\ SumTotals(cvStats, DOMAIN cvStats) + SumTotals(tiStats, DOMAIN tiStats)
                  < MaxAtomicSteps
           /\ RecordConvergence(symbol, c[1], c[2], c[3])
    \/ \E symbol \in GateSymbols, c \in TokWindowCalls :
           /\ SumTotals(cvStats, DOMAIN cvStats) + SumTotals(tiStats, DOMAIN tiStats)
                  < MaxAtomicSteps
           /\ RecordOutcome(symbol, c[1], c[2], c[3], c[4])
    \/ LoadStart
    \/ \E rows \in [GateSymbols -> LoadRowChoices] : LoadFinish(rows)
    \/ LoadFail
    \/ TokLoadStart
    \/ \E rows \in TokRowSets :
           /\ SumTotals(cvStats, DOMAIN cvStats) + SumTotals(tiStats, DOMAIN tiStats)
                  + Len(rows) <= MaxAtomicSteps
           /\ TokLoadFinish(rows)
    \/ TokLoadFail
    \/ \E symbol \in GateSymbols : TokQuiet /\ PriorityScoreCall(symbol)
    \/ \E symbol \in GateSymbols, min_score \in MinScores :
           TokQuiet /\ ConvShouldSignalCall(symbol, min_score)
    \/ \E symbol \in GateSymbols : ConvQuiet /\ GetScoreCall(symbol)
    \/ \E symbol \in GateSymbols, direction \in Directions,
          min_score \in MinScores, min_win_rate \in MinWinRates :
           ConvQuiet /\ ShouldSignalCall(symbol, direction, min_score, min_win_rate)

-----------------------------------------------------------------------------
(* The specifications, one per engine.                                     *)

Init ==
    /\ InitConv
    /\ InitTok
    /\ InitFund
    /\ InitMom
    /\ InitB64
    /\ now = 0

\* The state after construction with a database handed to the analyzer.
InitWithDb ==
    /\ Init
    /\ cvDb = TRUE

SpecConv == Init /\ [][NextConv]_vars
SpecConvGate == InitWithDb /\ [][NextConvGate]_vars
SpecDefaults == InitWithDb /\ [][NextDefaults]_vars
SpecAtomic == InitWithDb /\ [][NextAtomic]_vars
SpecMultipliers == InitWithDb /\ [][NextMultipliers]_vars
SpecTok == InitWithDb /\ [][NextTok]_vars
SpecTokGate == InitWithDb /\ [][NextTokGate]_vars
SpecTokWindow == InitWithDb /\ [][NextTokWindow]_vars
SpecB64 == InitWithDb /\ [][NextB64]_vars
SpecScores == InitWithDb /\ [][NextScores]_vars
SpecFund == InitWithDb /\ [][NextFund]_vars
SpecMom == InitWithDb /\ [][NextMom]_vars
SpecMomGate == InitWithDb /\ [][NextMomGate]_vars
SpecMomBurst == InitWithDb /\ [][NextMomBurst]_vars

-----------------------------------------------------------------------------
(* Claims about the ConvergenceAnalyzer, checked under SpecConv.           *)

\* C1: in every state reached by record_convergence and load_from_database
\* calls, a symbol with total_signals >= 5 and convergence_rate >= 0.6 is in the
\* whitelist and not in the blacklist, and one with total_signals >= 5 and
\* convergence_rate < 0.3 is in the blacklist and not in the whitelist.
C1_MembershipInvariant ==
    \A s \in DOMAIN cvStats :
        /\ (cvStats[s].total_signals >= 5
                /\ RGe(cvStats[s].convergence_rate, Rat(6, 10)))
            => (s \in cvWhitelist /\ s \notin cvBlacklist)
        /\ (cvStats[s].total_signals >= 5
                /\ RLt(cvStats[s].convergence_rate, Rat(3, 10)))
            => (s \in cvBlacklist /\ s \notin cvWhitelist)

\* C2: for every symbol on record, converged_signals <= total_signals, the
\* stored convergence_rate is converged_signals / total_signals, and it lies in
\* [0, 1].
C2_RateInvariant ==
    \A s \in DOMAIN cvStats :
        LET st == cvStats[s]
        IN  /\ st.total_signals > 0
            /\ st.converged_signals >= 0
            /\ st.converged_signals <= st.total_signals
            /\ st.convergence_rate[2] > 0
            /\ st.convergence_rate[1] * st.total_signals
                    = st.converged_signals * st.convergence_rate[2]
            /\ 0 <= st.convergence_rate[1]
            /\ st.convergence_rate[1] <= st.convergence_rate[2]

\* C2's case: a symbol recorded several times, some signals converged and some
\* not, while no load is or was in progress (record_convergence calls only).
C2_Witness ==
    /\ cvLoads = 0
    /\ \E s \in DOMAIN cvStats :
        /\ cvStats[s].total_signals >= 3
        /\ cvStats[s].converged_signals = 2
        /\ cvStats[s].convergence_rate = <<2, cvStats[s].total_signals>>


-----------------------------------------------------------------------------
(* Claims about TokenIntelligence, checked under SpecTok and SpecTokGate.  *)

\* C3: for every symbol on record, after record_outcome calls with any outcome
\* value (and loads, which replay rows through record_outcome),
\* wins + losses + draws = total_signals.
C3_OutcomeCounters ==
    \A s \in DOMAIN tiStats :
        tiStats[s].wins + tiStats[s].losses + tiStats[s].draws
            = tiStats[s].total_signals

\* C3's case: a symbol with a win, a loss and an outcome that is none of win,
\* lose and draw on record.
C3_Witness ==
    \E s \in DOMAIN tiStats :
        /\ tiStats[s].wins >= 1
        /\ tiStats[s].losses >= 1
        /\ Count(tiStats[s].recent_outcomes, "timeout") >= 1
        /\ tiStats[s].total_signals >= 3

\* C4: in every state reached by record_outcome and load_from_database calls,
\* the stored quality_score of each symbol is the score _calculate_score gives
\* for the symbol's current record: recomputing it changes nothing.
C4_ScoreFresh ==
    \A s \in DOMAIN tiStats :
        tiStats[s].quality_score = CalculateScore(tiStats[s])

\* C4's case: a load has replayed rows and live outcomes were recorded, and a
\* symbol with enough trades carries a score other than the neutral 5.0.
C4_Witness ==
    /\ tiLoads = 1
    /\ tiLoadPc = "idle"
    /\ \E s \in DOMAIN tiStats :
        /\ tiStats[s].total_signals >= MinTradesForScoring
        /\ tiStats[s].quality_score # RInt(5)
        /\ tiStats[s].draws >= 1
        /\ tiStats[s].losses >= 1

C12_RecentWindow ==
    [][\A symbol \in GateSymbols, c \in TokWindowCalls :
        RecordOutcome(symbol, c[1], c[2], c[3], c[4]) =>
            LET old == IF symbol \in DOMAIN tiStats
                       THEN tiStats[symbol].recent_outcomes ELSE <<>>
                new == tiStats'[symbol].recent_outcomes
                n == tiStats'[symbol].total_signals
            IN  /\ Len(new) = IF n < 10 THEN n ELSE 10
                /\ new = LastN(old \o <<c[2]>>, 10)]_vars

\* C12's case: twelve outcomes were recorded for a symbol and the ten kept
\* hold both a win and a lose.
C12_Witness ==
    /\ "BTC" \in DOMAIN tiStats
    /\ tiStats["BTC"].total_signals = 12
    /\ Len(tiStats["BTC"].recent_outcomes) = 10
    /\ tiStats["BTC"].recent_outcomes[1] = "lose"
    /\ tiStats["BTC"].recent_outcomes[10] = "win"

-----------------------------------------------------------------------------
(* Claims about the scores of both engines, checked under SpecScores.      *)

\* x is in [0, 10].
InScoreRange(x) == RGe(x, RInt(0)) /\ RLe(x, RInt(10))

\* C14: after any history of record_convergence calls get_priority_score is
\* in [0, 10] for every symbol, and after any history of record_outcome calls
\* the stored quality_score of every symbol is in [0, 10], also when the average
\* convergence time is exactly 300 or 3600 and when the average profit is
\* negative or very large.
C14_ScoreRanges ==
    /\ \A s \in Symbols : InScoreRange(GetPriorityScore(s))
    /\ \A s \in DOMAIN tiStats : InScoreRange(tiStats[s].quality_score)
    /\ (cvRet # None /\ Get(cvRet).op = "get_priority_score")
           => InScoreRange(Get(cvRet).value)

\* C14's case: get_priority_score has returned the score of a symbol with
\* three convergences, an average time of exactly 3600 s and a negative average
\* profit, while the TokenIntelligence holds a scored record with an average
\* time of exactly 300 s and an average profit of 200%.
C14_Witness ==
    /\ cvRet # None
    /\ Get(cvRet).op = "get_priority_score"
    /\ Get(cvRet).symbol = "BTC"
    /\ "BTC" \in DOMAIN cvStats
    /\ cvStats["BTC"].total_signals = 3
    /\ cvStats["BTC"].avg_convergence_time_sec = <<3600, 1>>
    /\ cvStats["BTC"].avg_profit_on_converge = <<-7, 1>>
    /\ Get(cvRet).value = <<4, 1>>
    /\ "BTC" \in DOMAIN tiStats
    /\ tiStats["BTC"].total_signals = 3
    /\ tiStats["BTC"].avg_convergence_time = <<300, 1>>
    /\ tiStats["BTC"].avg_profit = <<200, 1>>

\* The weighted sum 0.4 * (rate * 10) + 0.3 * speed + 0.3 * clamp(avg_profit *
\* 2, 0, 10), rounded to 2 decimals.
WeightedScore(stats, speed) ==
    LET profit == RMul(stats.avg_profit_on_converge, RInt(2))
        clamped == IF RLt(profit, RInt(0)) THEN RInt(0)
                   ELSE IF RGt(profit, RInt(10)) THEN RInt(10) ELSE profit
    IN  Round2(RAdd(RAdd(RMul(Rat(4, 10), RMul(stats.convergence_rate, RInt(10))),
                         RMul(Rat(3, 10), speed)),
                    RMul(Rat(3, 10), clamped)))

\* 10 up to 300 s, 0 from 3600 s on, 10 * (1 - (avg - 300) / 3300) in between.
SpeedByBands(avg) ==
    IF RLe(avg, RInt(300)) THEN RInt(10)
    ELSE IF RGe(avg, RInt(3600)) THEN RInt(0)
    ELSE RMul(RInt(10), RSub(RInt(1), RDiv(RSub(avg, RInt(300)), RInt(3300))))

\* C25 as stated: for every record with total_signals >= 3 the speed component
\* of get_priority_score is 10 for every average time <= 300, 0 for every
\* average >= 3600 and 10 * (1 - (avg - 300) / 3300) in between, and the score
\* is 0.4 * (rate * 10) + 0.3 * speed + 0.3 * clamp(avg_profit * 2, 0, 10)
\* rounded to 2 decimals.
C25_SpeedComponent ==
    (/\ cvRet # None
     /\ Get(cvRet).op = "get_priority_score"
     /\ Get(cvRet).symbol \in DOMAIN cvStats
     /\ cvStats[Get(cvRet).symbol].total_signals >= 3)
        => LET stats == cvStats[Get(cvRet).symbol]
           IN  Get(cvRet).value =
                   WeightedScore(stats, SpeedByBands(stats.avg_convergence_time_sec))

\* C25 amended: the speed component is 5 for an average time <= 0 (no
\* convergence time on record), 10 for 0 < avg <= 300, 0 for avg >= 3600 and
\* 10 * (1 - (avg - 300) / 3300) in between; the weighted sum is as stated.
C25_SpeedComponentAmended ==
    (/\ cvRet # None
     /\ Get(cvRet).op = "get_priority_score"
     /\ Get(cvRet).symbol \in DOMAIN cvStats
     /\ cvStats[Get(cvRet).symbol].total_signals >= 3)
        => LET stats == cvStats[Get(cvRet).symbol]
               avg == stats.avg_convergence_time_sec
           IN  Get(cvRet).value =
                   WeightedScore(stats, IF RLe(avg, RInt(0)) THEN RInt(5)
                                        ELSE SpeedByBands(avg))

\* C25's case: get_priority_score has returned 1.5 = 0.3 * 5 for a symbol with
\* three signals of which none converged, so that its average time is 0.
C25_Witness ==
    /\ cvRet # None
    /\ Get(cvRet).op = "get_priority_score"
    /\ Get(cvRet).symbol \in DOMAIN cvStats
    /\ cvStats[Get(cvRet).symbol].total_signals = 3
    /\ cvStats[Get(cvRet).symbol].converged_signals = 0
    /\ cvStats[Get(cvRet).symbol].avg_convergence_time_sec = RInt(0)
    /\ Get(cvRet).value = Rat(3, 2)

\* C16: should_signal(symbol, min_score) of the ConvergenceAnalyzer returns
\* False whenever the symbol is in the blacklist; otherwise True when the symbol
\* has no record or total_signals < 3; otherwise True if and only if
\* get_priority_score(symbol) >= min_score and convergence_rate >= 0.3.
C16_ConvDecision ==
    (cvRet # None /\ Get(cvRet).op = "should_signal")
        => LET symbol == Get(cvRet).symbol
               min_score == Get(cvRet).min_score
           IN  Get(cvRet).ok =
                   IF symbol \in cvBlacklist THEN FALSE
                   ELSE IF symbol \notin DOMAIN cvStats THEN TRUE
                   ELSE IF cvStats[symbol].total_signals < 3 THEN TRUE
                   ELSE /\ RGe(GetPriorityScore(symbol), min_score)
                        /\ RGe(cvStats[symbol].convergence_rate, Rat(3, 10))

\* C16's case: should_signal has vetoed a symbol that is not blacklisted, has
\* at least three signals and a priority score of at least min_score, because
\* its convergence rate is below 0.3.
C16_Witness ==
    /\ cvRet # None
    /\ Get(cvRet).op = "should_signal"
    /\ ~Get(cvRet).ok
    /\ Get(cvRet).symbol \notin cvBlacklist
    /\ Get(cvRet).symbol \in DOMAIN cvStats
    /\ cvStats[Get(cvRet).symbol].total_signals >= 3
    /\ RGe(GetPriorityScore(Get(cvRet).symbol), Get(cvRet).min_score)
    /\ RLt(cvStats[Get(cvRet).symbol].convergence_rate, Rat(3, 10))

\* C15: for a call of record_convergence with converged = True and a previous
\* average convergence time other than 0, the new average lies between the
\* previous average and the time just observed:
\* min(prev, time_seconds) <= new <= max(prev, time_seconds).
C15_EmaBounded ==
    (b64Last # None /\ Get(b64Last).prev.m # <<>>)
        => LET prev == Get(b64Last).prev
               t == B64OfNat(Get(b64Last).time_seconds)
               new == Get(b64Last).new
               lo == IF B64Lt(t, prev) THEN t ELSE prev
               hi == IF B64Lt(t, prev) THEN prev ELSE t
           IN  ~B64Lt(new, lo) /\ ~B64Lt(hi, new)

-----------------------------------------------------------------------------
(* Claims about the FundingTracker, checked under SpecFund.                *)

\* The rate get_funding_adjustment works from: predicted_rate if it is not 0,
\* else funding_rate, as a percentage.
ExpectedRatePct(info) ==
    IF info.predicted_rate[1] # 0
    THEN Rat(info.predicted_rate[1] * 100, info.predicted_rate[2])
    ELSE Rat(info.funding_rate[1] * 100, info.funding_rate[2])

\* C6: no call (fetch_funding_rate, get_cached_rate, calculate_funding_cost,
\* get_funding_adjustment) returns a value derived from a cached snapshot that
\* is 300 s old or older at the time of the call.
C6_NoStaleRead ==
    (fdRet # None /\ Get(fdRet).info # None)
        => now - Get(Get(fdRet).info).last_updated < CacheTtl

\* C7: a fetch_funding_rate(s) call made while the snapshot cached for s is
\* less than 300 s old returns that snapshot in the same step, sends no request
\* (the coroutine does not suspend, the session is not touched) and leaves the
\* cache unchanged.
C7_CacheHit ==
    [][\A t \in Tasks, s \in Symbols :
        (/\ FetchFundingRateCall(t, s)
         /\ s \in DOMAIN fdCache
         /\ now - fdCache[s].last_updated < CacheTtl)
        => (/\ fdRet' # None
            /\ Get(fdRet').op = "fetch_funding_rate"
            /\ Get(fdRet').symbol = s
            /\ Get(fdRet').info = Some(fdCache[s])
            /\ fdCache' = fdCache
            /\ fdTasks' = fdTasks
            /\ fdSession' = fdSession)]_vars

\* C7's case: fetch_funding_rate has just returned a snapshot that was cached
\* earlier (it is 150 s old), with no request in flight.
C7_Witness ==
    /\ fdRet # None
    /\ Get(fdRet).op = "fetch_funding_rate"
    /\ Get(fdRet).info # None
    /\ now - Get(Get(fdRet).info).last_updated = 150
    /\ \A t \in Tasks : fdTasks[t].pc = "idle"

\* C8: a fetch_funding_rate or fetch_all_funding_rates call that meets an
\* exception or a response that is not a success returns no data (None, an
\* empty dict), and every cache entry that existed before it got the response
\* is unchanged afterwards.
C8_FailureKeepsCache ==
    [][\A t \in Tasks :
        (\/ \E resp \in OneResponses :
               resp.kind # "ok" /\ FetchFundingRateResponse(t, resp)
         \/ \E resp \in AllResponses :
               AllFails(resp) /\ FetchAllResponse(t, resp))
        => (/\ Get(fdRet').info = None
            /\ Get(fdRet').rates = <<>>
            /\ \A s \in DOMAIN fdCache :
                  s \in DOMAIN fdCache' /\ fdCache'[s] = fdCache[s])]_vars

\* C9: calculate_funding_cost returns 0 for a symbol that is not cached, and
\* otherwise -(funding_rate*100)*(hold_hours/8) for LONG and
\* +(funding_rate*100)*(hold_hours/8) for SHORT; the LONG and the SHORT cost of
\* a snapshot are negations of each other.
C9_FundingCost ==
    /\ \A s \in Symbols, h \in HoldHours :
          CalculateFundingCost(s, "LONG", h) = RNeg(CalculateFundingCost(s, "SHORT", h))
    /\ (fdRet # None /\ Get(fdRet).op = "calculate_funding_cost") =>
          LET r == Get(fdRet)
              h == r.hold_hours
          IN  IF r.symbol \notin DOMAIN fdCache
              THEN r.value = <<0, 1>>
              ELSE LET f == fdCache[r.symbol].funding_rate
                   IN  r.value = Rat((IF r.direction = "LONG" THEN -1 ELSE 1)
                                         * f[1] * 100 * h[1],
                                     f[2] * h[2] * 8)

\* C9's case: the cost of a LONG held 8 hours at the cached funding_rate
\* 0.0001 was asked for, and -0.01 was returned.
C9_Witness ==
    /\ fdRet # None
    /\ Get(fdRet).op = "calculate_funding_cost"
    /\ Get(fdRet).direction = "LONG"
    /\ Get(fdRet).hold_hours = <<8, 1>>
    /\ Get(fdRet).info # None
    /\ Get(Get(fdRet).info).funding_rate = <<1, 10000>>
    /\ Get(fdRet).value = <<-1, 100>>

\* C10 as claimed: get_funding_adjustment has the sign convention of
\* calculate_funding_cost: -(r*100)*0.3 for LONG and +(r*100)*0.3 for SHORT,
\* and 0 when nothing is cached.
C10_SignOfCost ==
    (fdRet # None /\ Get(fdRet).op = "get_funding_adjustment") =>
        LET r == Get(fdRet)
        IN  IF r.info = None
            THEN r.value = <<0, 1>>
            ELSE r.value = RMul(RInt(IF r.direction = "LONG" THEN -1 ELSE 1),
                                RMul(ExpectedRatePct(Get(r.info)), Rat(3, 10)))

\* C10 as amended: get_funding_adjustment returns the amount to subtract from
\* the gross profit, the opposite sign of calculate_funding_cost: +(r*100)*0.3
\* for LONG and -(r*100)*0.3 for SHORT, with r the predicted rate if it is not
\* 0 and the current rate otherwise, and 0 when nothing is cached.
C10_AdjustmentSign ==
    (fdRet # None /\ Get(fdRet).op = "get_funding_adjustment") =>
        LET r == Get(fdRet)
        IN  IF r.info = None
            THEN r.value = <<0, 1>>
            ELSE r.value = RMul(RInt(IF r.direction = "LONG" THEN 1 ELSE -1),
                                RMul(ExpectedRatePct(Get(r.info)), Rat(3, 10)))

\* C10's case: the adjustment of a LONG was asked for on a snapshot whose
\* predicted rate 0.0002 differs from its funding rate -0.0005, and the
\* positive amount 0.006 was returned.
C10_Witness ==
    /\ fdRet # None
    /\ Get(fdRet).op = "get_funding_adjustment"
    /\ Get(fdRet).direction = "LONG"
    /\ Get(fdRet).info # None
    /\ Get(Get(fdRet).info).predicted_rate = <<1, 5000>>
    /\ Get(Get(fdRet).info).funding_rate = <<-1, 2000>>
    /\ Get(fdRet).value = <<3, 500>>

-----------------------------------------------------------------------------
(* Claims about the MomentumTracker, checked under SpecMom and SpecMomGate. *)

\* C11: the cached MomentumData of a symbol is recomputed on every new price
\* observation for the symbol, by record_price as well as by analyze_momentum:
\* wherever there is one, it is the analysis of the price points retained
\* now, and so its current_price is the price of the newest retained point.
C11_SnapshotFresh ==
    \A s \in DOMAIN mtCache :
        /\ s \in DOMAIN mtHistory
        /\ mtHistory[s] # <<>>
        /\ mtCache[s].current_price = mtHistory[s][Len(mtHistory[s])].price

\* The window of a symbol as record_price leaves it at time t: at most 1000
\* points, none older than 600 s before t, in non-decreasing order of their
\* timestamps.
WindowOk(points, t) ==
    /\ Len(points) <= 1000
    /\ \A i \in 1..Len(points) : points[i].timestamp >= t - 600
    /\ \A i \in 1..(Len(points) - 1) : points[i].timestamp <= points[i + 1].timestamp

\* C13: after every record_price or analyze_momentum call for a symbol, on a
\* clock that does not go back, the symbol's window holds at most 1000 points,
\* no point older than 600 s before the call, the points in non-decreasing
\* order of their timestamps, and the point just recorded as its last one; the
\* windows of the other symbols stay as their last call left them.
C13_PriceWindow ==
    [][/\ \A symbol \in Symbols, price \in MomPrices \cup BurstPrices :
             (RecordPrice(symbol, price) \/ AnalyzeMomentum(symbol, price)) =>
                 /\ symbol \in DOMAIN mtHistory'
                 /\ mtHistory'[symbol] # <<>>
                 /\ mtHistory'[symbol][Len(mtHistory'[symbol])]
                        = [price |-> price, timestamp |-> now]
                 /\ WindowOk(mtHistory'[symbol], now)
       /\ \A s \in DOMAIN mtHistory' :
             /\ mtHistory'[s] # <<>>
             /\ WindowOk(mtHistory'[s], mtHistory'[s][Len(mtHistory'[s])].timestamp)
      ]_vars

\* C13's case: the deque was filled at time 0, the clock moved past the
\* retention horizon, and the deque has been filled again with 1000 points
\* recorded at the new time.
C13_Witness ==
    /\ "BTC" \in DOMAIN mtHistory
    /\ Len(mtHistory["BTC"]) = 1000
    /\ now = 601
    /\ mtHistory["BTC"][1].timestamp = 601
    /\ mtRet # None
    /\ Get(mtRet).op = "record_price"

-----------------------------------------------------------------------------
(* Claims about all four engines, checked under SpecDefaults.              *)

\* The symbol has no record in the engine, or fewer than 3 signals on it.
MissingConv(symbol) ==
    symbol \notin DOMAIN cvStats \/ cvStats[symbol].total_signals < 3
MissingTok(symbol) ==
    symbol \notin DOMAIN tiStats \/ tiStats[symbol].total_signals < 3

\* C19: for a symbol that has no record in an engine (no ConvergenceStats, no
\* TokenStats, no cached FundingInfo, no cached MomentumData) or fewer than 3
\* signals in its ConvergenceStats or TokenStats, every query returns the
\* neutral default: get_priority_score and get_score 5.0, get_signal_modifier
\* and get_momentum_bonus 1.0, calculate_funding_cost and
\* get_funding_adjustment 0, and True from both should_signal and from
\* confirms_direction, whatever the thresholds.
C19_MissingDataDefaults ==
    /\ (cvRet # None /\ MissingConv(Get(cvRet).symbol))
           => IF Get(cvRet).op = "get_priority_score"
              THEN Get(cvRet).value = RInt(5)
              ELSE Get(cvRet).ok
    /\ (tiVerdict # None /\ MissingTok(Get(tiVerdict).symbol))
           => Get(tiVerdict).result.ok
    /\ (tiRet # None /\ MissingTok(Get(tiRet).symbol))
           => IF Get(tiRet).op = "get_score"
              THEN Get(tiRet).value = RInt(5)
              ELSE Get(tiRet).value = RInt(1)
    /\ (/\ fdRet # None
        /\ Get(fdRet).op \in {"calculate_funding_cost", "get_funding_adjustment"}
        /\ Get(fdRet).symbol \notin DOMAIN fdCache)
           => RIsZero(Get(fdRet).value)
    /\ (/\ mtRet # None
        /\ Get(mtRet).op \in {"confirms_direction", "get_momentum_bonus"}
        /\ Get(mtRet).symbol \notin DOMAIN mtCache)
           => IF Get(mtRet).op = "confirms_direction"
              THEN Get(mtRet).ok
              ELSE Get(mtRet).value = RInt(1)
    /\ \A symbol \in Symbols :
           /\ MissingConv(symbol) => symbol \notin cvBlacklist
           /\ MissingTok(symbol) => GetScore(symbol) = RInt(5)

\* C19's case: get_priority_score has returned for a symbol with two signals
\* on record, neither of them converged, while the other symbol has no record
\* in any engine and the first has a cached momentum snapshot.
C19_Witness ==
    /\ cvRet # None
    /\ Get(cvRet).op = "get_priority_score"
    /\ Get(cvRet).symbol = "BTC"
    /\ "BTC" \in DOMAIN cvStats
    /\ cvStats["BTC"].total_signals = 2
    /\ cvStats["BTC"].converged_signals = 0
    /\ "BTC" \in DOMAIN mtCache
    /\ "ETH" \notin DOMAIN cvStats \cup DOMAIN tiStats \cup DOMAIN fdCache \cup DOMAIN mtCache

-----------------------------------------------------------------------------
(* Claims about concurrent callers, checked under SpecAtomic.              *)

\* The derived fields of a ConvergenceStats agree with its counters.
ConvRecordWhole(st) ==
    /\ st.total_signals > 0
    /\ st.converged_signals <= st.total_signals
    /\ st.convergence_rate[1] * st.total_signals
            = st.converged_signals * st.convergence_rate[2]

\* The derived fields of a TokenStats agree with its counters and sums.
TokRecordWhole(st) ==
    /\ st.total_signals > 0
    /\ st.wins + st.losses + st.draws = st.total_signals
    /\ st.avg_profit[1] * st.total_profit[2] * st.total_signals
            = st.total_profit[1] * st.avg_profit[2]
    /\ st.win_rate[1] * st.total_signals = st.wins * st.win_rate[2]
    /\ st.quality_score = CalculateScore(st)

-----------------------------------------------------------------------------
(* Claims about the averages of record_convergence, checked under          *)
(* SpecConvGate.                                                           *)

\* C24: avg_convergence_time_sec and avg_profit_on_converge are seeded only by
\* the first converged event of a symbol: every later converged event with
\* values time_seconds and profit_percent makes the averages
\* 0.3 * value + 0.7 * old, whatever old is.
C24_EmaSeededOnce ==
    [][\A symbol \in Symbols, time_seconds \in ConvTimes,
          profit_percent \in ConvProfits :
            (/\ symbol \in DOMAIN cvStats
             /\ cvStats[symbol].converged_signals >= 1
             /\ RecordConvergence(symbol, TRUE, time_seconds, profit_percent))
            => LET old == cvStats[symbol]
                   new == cvStats'[symbol]
               IN  /\ new.avg_convergence_time_sec =
                          RAdd(RMul(Alpha, RInt(time_seconds)),
                               RMul(RSub(RInt(1), Alpha),
                                    old.avg_convergence_time_sec))
                   /\ new.avg_profit_on_converge =
                          RAdd(RMul(Alpha, RInt(profit_percent)),
                               RMul(RSub(RInt(1), Alpha),
                                    old.avg_profit_on_converge))
      ]_vars

-----------------------------------------------------------------------------
(* Claims about load_from_database next to live recording, checked under   *)
(* SpecConv.                                                               *)

\* C21: when load_from_database runs while live record_convergence calls are
\* applied, also while the load is suspended waiting for the store, every
\* symbol's record still reflects every live call applied to it once the load
\* has completed: the loaded rows do not take a signal or a convergence that
\* was counted away from a record.
C21_LoadKeepsLiveUpdates ==
    [][\A rows \in LoadRowSets :
          LoadFinish(rows) =>
              \A s \in DOMAIN cvStats :
                  /\ s \in DOMAIN cvStats'
                  /\ cvStats'[s].total_signals >= cvStats[s].total_signals
                  /\ cvStats'[s].converged_signals >= cvStats[s].converged_signals
      ]_vars

\* C23: a record_convergence call after which the symbol's record has fewer
\* than 5 signals, or a rate in [0.3, 0.6), leaves the whitelist and the
\* blacklist as they were; and no record_convergence call changes whether any
\* other symbol is in either set.
C23_StickyMembership ==
    [][\A symbol \in Symbols, converged \in BOOLEAN,
          time_seconds \in ConvTimes, profit_percent \in ConvProfits :
            RecordConvergence(symbol, converged, time_seconds, profit_percent) =>
                LET st == cvStats'[symbol]
                IN  /\ (\/ st.total_signals < 5
                         \/ (/\ RGe(st.convergence_rate, Rat(3, 10))
                             /\ RLt(st.convergence_rate, Rat(6, 10))))
                        => (/\ cvWhitelist' = cvWhitelist
                            /\ cvBlacklist' = cvBlacklist)
                    /\ \A other \in Symbols \ {symbol} :
                           /\ (other \in cvWhitelist') = (other \in cvWhitelist)
                           /\ (other \in cvBlacklist') = (other \in cvBlacklist)
      ]_vars

\* C23's case: a symbol whitelisted by a load at rate 2/3 got two signals that
\* did not converge; its rate is 2/5 and it is still whitelisted.
C23_Witness ==
    /\ "BTC" \in DOMAIN cvStats
    /\ cvStats["BTC"].total_signals = 5
    /\ cvStats["BTC"].converged_signals = 2
    /\ cvStats["BTC"].avg_convergence_time_sec = RInt(200)
    /\ "BTC" \in cvWhitelist

\* C29: the whitelist and the blacklist are disjoint in every reachable state,
\* after any interleaved sequence of record_convergence and load_from_database
\* calls.
C29_SetsDisjoint == cvWhitelist \cap cvBlacklist = {}

-----------------------------------------------------------------------------
(* Claims about the multipliers, checked under SpecMultipliers.            *)

InMultiplierRange(x) == RGe(x, Rat(1, 2)) /\ RLe(x, Rat(3, 2))

\* C22: get_momentum_bonus(symbol, direction) and
\* get_signal_modifier(symbol, direction) are in [0.5, 1.5] in every reachable
\* state, for every symbol and direction; get_momentum_bonus is
\* 1 + strength * 0.05 for an aligned trend (bullish for LONG, bearish for
\* SHORT), 1 - strength * 0.05 for an opposing trend and 1.0 otherwise.
C22_MultiplierRanges ==
    /\ \A symbol \in Symbols, direction \in Directions :
           /\ InMultiplierRange(GetMomentumBonus(symbol, direction))
           /\ InMultiplierRange(GetSignalModifier(symbol, direction))
    /\ (tiRet # None /\ Get(tiRet).op = "get_signal_modifier")
           => InMultiplierRange(Get(tiRet).value)
    /\ (mtRet # None /\ Get(mtRet).op = "get_momentum_bonus")
           => LET r == Get(mtRet)
                  delta == IF r.symbol \in DOMAIN mtCache
                           THEN RMul(mtCache[r.symbol].strength, Rat(1, 20))
                           ELSE RInt(0)
                  trend == IF r.symbol \in DOMAIN mtCache
                           THEN mtCache[r.symbol].trend ELSE "none"
                  aligned == <<r.direction, trend>>
                                 \in {<<"LONG", "bullish">>, <<"SHORT", "bearish">>}
                  opposing == <<r.direction, trend>>
                                  \in {<<"LONG", "bearish">>, <<"SHORT", "bullish">>}
              IN  /\ InMultiplierRange(r.value)
                  /\ r.value = IF aligned THEN RAdd(RInt(1), delta)
                               ELSE IF opposing THEN RSub(RInt(1), delta)
                               ELSE RInt(1)

\* C22's case: get_momentum_bonus has returned the lower end of the range, 0.5,
\* for a LONG against a bearish snapshot of strength 10, while a symbol with
\* three outcomes on record has a signal modifier above 1.
C22_Witness ==
    /\ mtRet # None
    /\ Get(mtRet).op = "get_momentum_bonus"
    /\ Get(mtRet).direction = "LONG"
    /\ Get(mtRet).symbol \in DOMAIN mtCache
    /\ mtCache[Get(mtRet).symbol].trend = "bearish"
    /\ mtCache[Get(mtRet).symbol].strength = RInt(10)
    /\ Get(mtRet).value = Rat(1, 2)
    /\ "BTC" \in DOMAIN tiStats
    /\ tiStats["BTC"].total_signals >= 3
    /\ RGt(GetSignalModifier("BTC", "LONG"), RInt(1))

-----------------------------------------------------------------------------
(* Claims about the profit fields, the direction counters and the replay   *)
(* of stored outcomes, checked under SpecTokGate and SpecTok.              *)

\* C26: after any non-empty sequence of record_outcome calls for a symbol,
\* best_trade is the maximum and worst_trade the minimum of the profits
\* recorded for it, total_profit is their sum and avg_profit is
\* total_profit / total_signals. Call by call: the first call for a symbol
\* makes best_trade and worst_trade its profit, and every later call makes
\* them the larger and the smaller of the old value and its profit.
C26_ProfitExtremes ==
    [][\A symbol \in GateSymbols, c \in TokGateCalls :
          RecordOutcome(symbol, c[1], c[2], c[3], c[4]) =>
              LET first == symbol \notin DOMAIN tiStats
                  p == RInt(c[3])
                  new == tiStats'[symbol]
              IN  /\ new.best_trade =
                         IF first THEN p ELSE RMax(tiStats[symbol].best_trade, p)
                  /\ new.worst_trade =
                         IF first THEN p ELSE RMin(tiStats[symbol].worst_trade, p)
                  /\ new.total_profit =
                         IF first THEN p ELSE RAdd(tiStats[symbol].total_profit, p)
                  /\ new.avg_profit =
                         RDiv(new.total_profit, RInt(new.total_signals))
      ]_vars

\* The counters of a record add up.
CountersAddUp(st) ==
    /\ st.long_total + st.short_total = st.total_signals
    /\ st.long_wins + st.short_wins = st.wins
    /\ st.long_wins <= st.long_total
    /\ st.short_wins <= st.short_total

\* C28: after any sequence of record_outcome calls for a symbol,
\* long_total + short_total = total_signals, long_wins + short_wins = wins,
\* long_wins <= long_total and short_wins <= short_total; a win counter is
\* incremented only by a "win" outcome and a total counter by every outcome.
C28_DirectionCounters ==
    [][/\ \A s \in DOMAIN tiStats' : CountersAddUp(tiStats'[s])
       /\ \A symbol \in Symbols, c \in TokCalls :
              RecordOutcome(symbol, c[1], c[2], c[3], c[4]) =>
                  LET old == IF symbol \in DOMAIN tiStats
                             THEN tiStats[symbol] ELSE NewTokenStats
                      new == tiStats'[symbol]
                      won == IF c[2] = "win" THEN 1 ELSE 0
                  IN  /\ new.total_signals = old.total_signals + 1
                      /\ new.long_total + new.short_total =
                             old.long_total + old.short_total + 1
                      /\ new.long_total >= old.long_total
                      /\ new.short_total >= old.short_total
                      /\ new.wins = old.wins + won
                      /\ new.long_wins + new.short_wins =
                             old.long_wins + old.short_wins + won
                      /\ new.long_wins >= old.long_wins
                      /\ new.short_wins >= old.short_wins
      ]_vars

\* C28's case: a symbol has outcomes of both directions on record, a win and
\* an outcome that is not a win in each direction.
C28_Witness ==
    \E s \in DOMAIN tiStats :
        /\ tiStats[s].long_total = 2
        /\ tiStats[s].long_wins = 1
        /\ tiStats[s].short_total = 2
        /\ tiStats[s].short_wins = 1
        /\ tiStats[s].draws >= 1

\* The outcomes of the rows of a result set that are for token s, oldest
\* signal first: the result set has the newest signal first.
OutcomesOldestFirst(rows, s) ==
    LET mine == SelectSeq(rows, LAMBDA r : r[1] = s)
    IN  [i \in 1..Len(mine) |-> mine[Len(mine) + 1 - i][3]]

\* C27: after load_from_database on an empty engine the recent_outcomes of
\* every symbol are the outcomes of its most recently created signals (up to
\* 10) with the newest one last, so that the losing-streak check of
\* should_signal, which reads recent_outcomes[-5:], looks at the 5 newest.
C27_LoadedWindowNewestLast ==
    [][\A rows \in TokRowSets :
          (tiStats = <<>> /\ TokLoadFinish(rows)) =>
              \A s \in DOMAIN tiStats' :
                  tiStats'[s].recent_outcomes =
                      LastN(OutcomesOldestFirst(rows, s), 10)
      ]_vars

-----------------------------------------------------------------------------
(* Claims about overlapping fetches, checked under SpecFund.               *)

\* No two callers are inside fetch_funding_rate for the same symbol with their
\* requests sent and not answered yet.
OneRequestPerSymbol ==
    \A t1 \in Tasks, t2 \in Tasks :
        (t1 # t2 /\ fdTasks[t1].pc = "one" /\ fdTasks[t2].pc = "one")
            => fdTasks[t1].symbol # fdTasks[t2].symbol

\* C30: when two fetch_funding_rate calls for the same symbol, uncached or
\* stale, overlap (the second one started while the first is suspended on the
\* network), at most one request is issued for the symbol; and a response that
\* completes later never replaces a snapshot by one with an older last_updated.
C30_NoDuplicateRequests ==
    [][/\ OneRequestPerSymbol'
       /\ \A s \in DOMAIN fdCache :
              /\ s \in DOMAIN fdCache'
              /\ fdCache'[s].last_updated >= fdCache[s].last_updated
      ]_vars

=============================================================================
